---- MODULE Spec2Model ----
(***************************************************************************)
(* Naughty-or-Nice checker (naughty-nice-app/server.js): the four source   *)
(* fetchers with their fallback chains, the four analyzers, the weighted   *)
(* aggregator and the two request handlers /api/analyze and                *)
(* /api/analyze-all.                                                       *)
(*                                                                         *)
(* JavaScript numbers are IEEE-754 doubles.  The aggregator multiplies and *)
(* adds the fractional weights 0.30 and 0.10 and divides the sums, so its  *)
(* arithmetic is modelled bit-exactly: a double is a sign, a 53-bit        *)
(* mantissa (kept as a little-endian sequence of 15-bit limbs, because TLC *)
(* integers are 32 bits wide) and a binary exponent, and every operation   *)
(* rounds to nearest, ties to even.                                        *)
(***************************************************************************)
EXTENDS Integers, Sequences, FiniteSets, TLC

(***************************************************************************)
(* Bounds of the model.                                                    *)
(***************************************************************************)
\* longest item list handed to a text analyzer
MaxItems == 3
\* longest event list handed to analyzeGitHubData
MaxEvents == 2

(***************************************************************************)
(* IEEE-754 double arithmetic on the numbers of the program.  A double is  *)
(* [s, m, e]: the value s * m * 2^e with sign s, a mantissa m of MantBits  *)
(* bits kept as a list of limbs (least significant first) and exponent e;  *)
(* zero has the empty mantissa.  No value here overflows or is subnormal.  *)
(***************************************************************************)
LimbBits == 15
LimbBase == 2^LimbBits
MantBits == 53

\* JavaScript evaluates the operands of a call before the call: F on the values
\* of its operands
Strict1(F(_), a) == CHOOSE r \in {F(x) : x \in {a}} : TRUE
Strict2(F(_, _), a, b) == CHOOSE r \in {F(x, y) : x \in {a}, y \in {b}} : TRUE

RECURSIVE BNorm(_)
BNorm(a) == IF a = <<>> THEN a
            ELSE IF a[Len(a)] = 0 THEN BNorm(SubSeq(a, 1, Len(a) - 1)) ELSE a

RECURSIVE BFromNat(_)
BFromNat(n) == IF n = 0 THEN <<>> ELSE <<n % LimbBase>> \o BFromNat(n \div LimbBase)

RECURSIVE BToNat(_)
BToNat(a) == IF a = <<>> THEN 0 ELSE a[1] + LimbBase * BToNat(Tail(a))

Limb(a, i) == IF i <= Len(a) THEN a[i] ELSE 0

RECURSIVE BAddC(_, _, _, _)
BAddC(a, b, i, c) ==
  IF i > Len(a) /\ i > Len(b) THEN (IF c = 0 THEN <<>> ELSE <<c>>)
  ELSE LET s == Limb(a, i) + Limb(b, i) + c
       IN <<s % LimbBase>> \o BAddC(a, b, i + 1, s \div LimbBase)
BAdd(a, b) == BAddC(a, b, 1, 0)

RECURSIVE BSubC(_, _, _, _)
BSubC(a, b, i, c) ==
  IF i > Len(a) THEN <<>>
  ELSE LET s == Limb(a, i) - Limb(b, i) - c
       IN IF s < 0 THEN <<s + LimbBase>> \o BSubC(a, b, i + 1, 1)
          ELSE <<s>> \o BSubC(a, b, i + 1, 0)
BSub(a, b) == BNorm(BSubC(a, b, 1, 0))

RECURSIVE BCmpAt(_, _, _)
BCmpAt(a, b, i) ==
  IF i = 0 THEN 0
  ELSE IF a[i] > b[i] THEN 1 ELSE IF a[i] < b[i] THEN -1 ELSE BCmpAt(a, b, i - 1)
BCmp(a, b) == IF Len(a) > Len(b) THEN 1 ELSE IF Len(a) < Len(b) THEN -1
              ELSE BCmpAt(a, b, Len(a))

RECURSIVE BMulSmallC(_, _, _, _)
BMulSmallC(a, k, i, c) ==
  IF i > Len(a) THEN (IF c = 0 THEN <<>> ELSE <<c>>)
  ELSE LET s == a[i] * k + c
       IN <<s % LimbBase>> \o BMulSmallC(a, k, i + 1, s \div LimbBase)
BMulSmall(a, k) == IF k = 0 THEN <<>> ELSE BMulSmallC(a, k, 1, 0)

ShiftLimbs(a, n) == IF a = <<>> THEN a ELSE [i \in 1..n |-> 0] \o a

RECURSIVE BMulAt(_, _, _)
BMulAt(a, b, j) ==
  IF j > Len(b) THEN <<>>
  ELSE BAdd(ShiftLimbs(BMulSmall(a, b[j]), j - 1), BMulAt(a, b, j + 1))
BMul(a, b) == BMulAt(a, b, 1)

RECURSIVE BDivSmallAt(_, _, _, _)
BDivSmallAt(a, k, i, r) ==
  IF i = 0 THEN <<>>
  ELSE LET cur == r * LimbBase + a[i]
       IN BDivSmallAt(a, k, i - 1, cur % k) \o <<cur \div k>>
BDivSmall(a, k) == BNorm(BDivSmallAt(a, k, Len(a), 0))

BShl(a, n) == ShiftLimbs(BMulSmall(a, 2^(n % LimbBits)), n \div LimbBits)
BShr(a, n) == IF n \div LimbBits >= Len(a) THEN <<>>
              ELSE BDivSmall(SubSeq(a, n \div LimbBits + 1, Len(a)), 2^(n % LimbBits))

RECURSIVE NatBits(_)
NatBits(n) == IF n = 0 THEN 0 ELSE 1 + NatBits(n \div 2)
BBitLen(a) == IF a = <<>> THEN 0 ELSE (Len(a) - 1) * LimbBits + NatBits(a[Len(a)])
BOdd(a) == a # <<>> /\ a[1] % 2 = 1

\* largest d with d * b <= r, for r < b * LimbBase and a divisor b whose top limb
\* is at least LimbBase / 2: the quotient of the two top limbs of r by the top
\* limb of b is d, d + 1 or d + 2 (Knuth, TAOCP 4.3.1, Theorem B)
QEstimate(r, b) ==
  IF (Limb(r, Len(b) + 1) * LimbBase + Limb(r, Len(b))) \div b[Len(b)] < LimbBase
  THEN (Limb(r, Len(b) + 1) * LimbBase + Limb(r, Len(b))) \div b[Len(b)]
  ELSE LimbBase - 1
QAtMost(r, b, d) == IF BCmp(BMulSmall(b, d), r) <= 0 THEN d
                    ELSE IF BCmp(BMulSmall(b, d - 1), r) <= 0 THEN d - 1 ELSE d - 2
QDigit(r, b) == QAtMost(r, b, QEstimate(r, b))

\* one limb of the dividend: r2 is the running remainder with the limb appended,
\* d the quotient digit, q the digits found so far
RECURSIVE BDivModAt(_, _, _, _, _)
DivDigit(num, b, i, r2, q, d) ==
  Strict2(LAMBDA r, digits : BDivModAt(num, b, i - 1, r, digits),
          BSub(r2, BMulSmall(b, d)), <<d>> \o q)
DivLimb(num, b, i, r2, q) == DivDigit(num, b, i, r2, q, QDigit(r2, b))
\* schoolbook long division, one limb of the dividend at a time: <<quotient, remainder>>
BDivModAt(num, b, i, r, q) ==
  IF i = 0 THEN <<BNorm(q), r>> ELSE DivLimb(num, b, i, BNorm(<<num[i]>> \o r), q)
\* the limbs of the dividend above the first Len(b) - 1 give no quotient digit
DivFrom(num, b, i) == BDivModAt(num, b, i, SubSeq(num, i + 1, Len(num)), <<>>)
\* both operands shifted by k bits, so that the top limb of the divisor is at
\* least LimbBase / 2; the quotient is the same and the remainder is shifted back
Unshifted(qr, k) == <<qr[1], BShr(qr[2], k)>>
DivShifted(a, b, k) ==
  Unshifted(DivFrom(BShl(a, k), BShl(b, k),
                     IF Len(BShl(a, k)) < Len(b) THEN 0 ELSE Len(BShl(a, k)) - Len(b) + 1), k)
BDivMod(a, b) == DivShifted(a, b, LimbBits - NatBits(b[Len(b)]))

\* floor(a * 2^k / b) with the sticky bit of the remainder appended
WithSticky(qr) == BAdd(BMulSmall(qr[1], 2), IF qr[2] = <<>> THEN <<>> ELSE <<1>>)
BQuotSticky(a, b, k) == WithSticky(BDivMod(BShl(a, k), b))

Zero == [s |-> 1, m |-> <<>>, e |-> 0]

\* round to nearest, ties to even: the mantissa n * 2^e is cut to MantBits bits.
\* L is the bit length of n, sh the bits cut, q the bits kept, c the comparison of
\* the bits cut with one half, q2 the rounded mantissa
Pack(s, e, sh, q2) ==
  IF BBitLen(q2) > MantBits THEN [s |-> s, m |-> BShr(q2, 1), e |-> e + sh + 1]
  ELSE [s |-> s, m |-> q2, e |-> e + sh]
RoundUp(s, e, sh, q, c) ==
  Pack(s, e, sh, IF c > 0 \/ (c = 0 /\ BOdd(q)) THEN BAdd(q, <<1>>) ELSE q)
RoundKept(s, n, e, sh, q) ==
  RoundUp(s, e, sh, q, BCmp(BSub(n, BShl(q, sh)), BShl(<<1>>, sh - 1)))
RoundBits(s, n, e, L) ==
  IF L <= MantBits
  THEN [s |-> s, m |-> BShl(n, MantBits - L), e |-> e - (MantBits - L)]
  ELSE RoundKept(s, n, e, L - MantBits, BShr(n, L - MantBits))
RoundPack(s, n, e) == IF n = <<>> THEN Zero ELSE RoundBits(s, n, e, BBitLen(n))

FromInt(n) == IF n < 0 THEN RoundPack(-1, BFromNat(-n), 0) ELSE RoundPack(1, BFromNat(n), 0)

FMul(a, b) == IF a.m = <<>> \/ b.m = <<>> THEN Zero
              ELSE RoundPack(a.s * b.s, BMul(a.m, b.m), a.e + b.e)

\* x and y are the mantissas of a and b at the common exponent e
AddMantissas(a, b, e, x, y) ==
  IF a.s = b.s THEN RoundPack(a.s, BAdd(x, y), e)
  ELSE IF BCmp(x, y) >= 0 THEN RoundPack(a.s, BSub(x, y), e)
  ELSE RoundPack(b.s, BSub(y, x), e)
AddAt(a, b, e) == AddMantissas(a, b, e, BShl(a.m, a.e - e), BShl(b.m, b.e - e))
FAdd(a, b) ==
  IF a.m = <<>> THEN b ELSE IF b.m = <<>> THEN a
  ELSE AddAt(a, b, IF a.e < b.e THEN a.e ELSE b.e)

FDiv(a, b) == IF a.m = <<>> THEN Zero
              ELSE RoundPack(a.s * b.s, BQuotSticky(a.m, b.m, MantBits + 2), a.e - b.e - (MantBits + 2) - 1)

FPositive(a) == a.m # <<>> /\ a.s = 1

\* floor(x + 1/2) from twice = floor(2|x|), for x = a.s * |x| not an integer
RoundHalf(a, twice) ==
  IF a.s = 1 THEN (BToNat(twice) + 1) \div 2
  ELSE \* floor(-|x| + 1/2) = -ceil(|x| - 1/2) = -ceil((2|x| - 1)/2)
       IF BShl(twice, (-a.e) - 1) = a.m THEN -(BToNat(twice) \div 2)
       ELSE -((BToNat(twice) + 1) \div 2)

\* Math.round: floor(x + 1/2), for |x| < 2^30
MathRound(a) ==
  IF a.m = <<>> THEN 0
  ELSE IF a.e >= 0 THEN a.s * BToNat(BShl(a.m, a.e))
  ELSE RoundHalf(a, BShr(a.m, (-a.e) - 1))

(***************************************************************************)
(* Text: a string; String.prototype.toLowerCase and includes.  Characters  *)
(* outside ASCII never take part in a keyword match and are left out of    *)
(* the sample texts.                                                       *)
(***************************************************************************)
UpperCase == "ABCDEFGHIJKLMNOPQRSTUVWXYZ"
LowerCase == "abcdefghijklmnopqrstuvwxyz"

LowerChar(c) ==
  IF \E i \in 1..Len(UpperCase) : SubSeq(UpperCase, i, i) = c
  THEN LET i == CHOOSE j \in 1..Len(UpperCase) : SubSeq(UpperCase, j, j) = c
       IN SubSeq(LowerCase, i, i)
  ELSE c

\* the characters lo..hi of the text in lower case, by halves
RECURSIVE LowerFrom(_, _, _)
LowerFrom(text, lo, hi) ==
  IF lo > hi THEN ""
  ELSE IF lo = hi THEN LowerChar(SubSeq(text, lo, lo))
  ELSE LowerFrom(text, lo, (lo + hi) \div 2) \o LowerFrom(text, (lo + hi) \div 2 + 1, hi)
toLowerCase(text) == LowerFrom(text, 1, Len(text))

includes(text, keyword) ==
  \E i \in 1..(Len(text) - Len(keyword) + 1) : SubSeq(text, i, i + Len(keyword) - 1) = keyword

\* number of keywords of the list that the text contains: the forEach loops that
\* increment a counter once per matching keyword
Matches(text, keywords) ==
  Cardinality({k \in 1..Len(keywords) : includes(text, keywords[k])})

\* keywords.filter(k => text.includes(k))
MatchingKeywords(text, keywords) ==
  SelectSeq(keywords, LAMBDA keyword : includes(text, keyword))

NAUGHTY_KEYWORDS ==
  << "hate", "angry", "stupid", "idiot", "dumb", "terrible", "worst", "bad",
     "awful", "horrible", "annoying", "trash", "garbage", "sucks",
     "pathetic", "loser", "fail", "failure", "disgusting", "nasty", "ugly",
     "boring", "liar", "fake", "fraud", "scam", "cheat", "steal", "kill",
     "die", "shut up", "go away", "leave me alone", "i dont care",
     "whatever", "complain", "whine", "cry", "blame", "fault", "rude",
     "mean", "cruel" >>

NICE_KEYWORDS ==
  << "love", "happy", "grateful", "thankful", "appreciate", "kind", "help",
     "support", "care", "wonderful", "amazing", "awesome", "great",
     "excellent", "beautiful", "fantastic", "incredible", "brilliant",
     "perfect", "best", "friend", "family", "together", "share", "give",
     "donate", "volunteer", "inspire", "encourage", "motivate", "celebrate",
     "congratulations", "congrats", "thank you", "thanks", "please",
     "sorry", "welcome", "bless", "blessed", "joy", "peace", "hope",
     "dream", "believe", "trust", "faith", "smile" >>

NEWS_NAUGHTY_KEYWORDS ==
  << "scandal", "controversy", "arrested", "accused", "lawsuit", "fired",
     "criticized", "backlash", "outrage", "apologizes", "admits",
     "investigation", "fraud", "scam", "criminal", "guilty", "convicted",
     "allegations" >>

NEWS_NICE_KEYWORDS ==
  << "awarded", "honored", "praised", "celebrates", "donates", "charity",
     "hero", "saves", "helps", "achievement", "breakthrough", "success",
     "philanthropist", "volunteer", "recognition", "inspiring", "beloved" >>

(***************************************************************************)
(* JavaScript values.  null is Null; an object is a record and a missing   *)
(* property is a missing field (reading it gives undefined); calling a     *)
(* method of undefined or null throws a TypeError, which is the value a    *)
(* throwing function "returns" here.  A parsed JSON value that the code    *)
(* uses as an array is tagged with whether it is one.                      *)
(***************************************************************************)
Null == [isNull |-> TRUE]
TypeError == [exception |-> "TypeError"]
IsException(v) == "exception" \in DOMAIN v
HasText(item) == "text" \in DOMAIN item

Min(a, b) == IF a < b THEN a ELSE b
Max(a, b) == IF a > b THEN a ELSE b
Verdict(score) == IF score >= 50 THEN "NICE" ELSE "NAUGHTY"

\* Math.round((count / total) * 100)
Percentage(count, total) == MathRound(FMul(FDiv(FromInt(count), FromInt(total)), FromInt(100)))

(***************************************************************************)
(* analyzeTweets: the forEach loop with its four accumulators.             *)
(***************************************************************************)
\* one run of the forEach callback, from the accumulators acc to the accumulators
\* after it; a TypeError thrown by an earlier run has ended the loop
TweetStep(tweet, acc) ==
  IF IsException(acc) THEN acc
  ELSE IF ~HasText(tweet) THEN TypeError
  ELSE LET text         == toLowerCase(tweet.text)
           tweetNaughty == Matches(text, NAUGHTY_KEYWORDS)
           tweetNice    == Matches(text, NICE_KEYWORDS)
           naughtyEx    == IF tweetNaughty > tweetNice /\ Len(acc.naughtyExamples) < 3
                           THEN Append(acc.naughtyExamples,
                                       [text |-> tweet.text,
                                        keywords |-> MatchingKeywords(text, NAUGHTY_KEYWORDS)])
                           ELSE acc.naughtyExamples
           niceEx       == IF ~(tweetNaughty > tweetNice /\ Len(acc.naughtyExamples) < 3)
                              /\ tweetNice > tweetNaughty /\ Len(acc.niceExamples) < 3
                           THEN Append(acc.niceExamples,
                                       [text |-> tweet.text,
                                        keywords |-> MatchingKeywords(text, NICE_KEYWORDS)])
                           ELSE acc.niceExamples
       IN [naughtyCount    |-> acc.naughtyCount + tweetNaughty,
           niceCount       |-> acc.niceCount + tweetNice,
           naughtyExamples |-> naughtyEx,
           niceExamples    |-> niceEx]

\* the runs lo..hi of the callback in order: those of the first half of the range,
\* then those of the second half on what the first half left
RECURSIVE TweetRuns(_, _, _, _)
TweetRuns(tweets, lo, hi, acc) ==
  IF lo > hi THEN acc
  ELSE IF lo = hi THEN TweetStep(tweets[lo], acc)
  ELSE Strict1(LAMBDA half : TweetRuns(tweets, (lo + hi) \div 2 + 1, hi, half),
               TweetRuns(tweets, lo, (lo + hi) \div 2, acc))
TweetLoop(tweets, i, acc) == TweetRuns(tweets, i, Len(tweets), acc)

\* the score without Math.max and Math.min
TweetScoreUnclamped(niceCount, naughtyCount) == 50 + (niceCount - naughtyCount) * 5
\* line 543
TweetScore(niceCount, naughtyCount) == Max(0, Min(100, 50 + (niceCount - naughtyCount) * 5))

\* no call has run yet: there is nothing an earlier call could have left
ZeroCounters ==
  [naughtyCount |-> 0, niceCount |-> 0, naughtyExamples |-> <<>>, niceExamples |-> <<>>]

\* counters that go on from where the call before stopped
CountersCarried(left) == left
\* lines 501-504: the counters and example lists a call starts with.  They are
\* declared inside the function, so what the call before left plays no part.
EntryCounters(left) == ZeroCounters

\* lines 538-555: the percentages, the score and the returned object
TweetReturn(tweets, acc) ==
  IF IsException(acc) THEN acc
  ELSE LET total == IF acc.naughtyCount + acc.niceCount = 0 THEN 1
                    ELSE acc.naughtyCount + acc.niceCount
           score == TweetScore(acc.niceCount, acc.naughtyCount)
       IN [score               |-> score,
           verdict             |-> Verdict(score),
           niceCount           |-> acc.niceCount,
           naughtyCount        |-> acc.naughtyCount,
           nicePercentage      |-> Percentage(acc.niceCount, total),
           naughtyPercentage   |-> Percentage(acc.naughtyCount, total),
           naughtyExamples     |-> acc.naughtyExamples,
           niceExamples        |-> acc.niceExamples,
           totalTweetsAnalyzed |-> Len(tweets)]

analyzeTweets(tweets) ==
  TweetReturn(tweets, TweetLoop(tweets, 1, EntryCounters(ZeroCounters)))

(***************************************************************************)
(* analyzeRedditComments                                                   *)
(***************************************************************************)
RECURSIVE RedditLoop(_, _, _)
RedditLoop(comments, i, acc) ==
  IF i > Len(comments) THEN acc
  ELSE IF ~HasText(comments[i]) THEN TypeError
  ELSE LET text == toLowerCase(comments[i].text)
       IN RedditLoop(comments, i + 1,
            [naughtyCount |-> acc.naughtyCount + Matches(text, NAUGHTY_KEYWORDS)
                              + (IF comments[i].score < 0 THEN 2 ELSE 0),
             niceCount    |-> acc.niceCount + Matches(text, NICE_KEYWORDS)
                              + (IF comments[i].score > 10 THEN 1 ELSE 0)])

\* the score with the step of the tweet analyzer
RedditScoreStepFive(niceCount, naughtyCount) ==
  Max(0, Min(100, 50 + (niceCount - naughtyCount) * 5))
RedditScore(niceCount, naughtyCount) == Max(0, Min(100, 50 + (niceCount - naughtyCount) * 3))

analyzeRedditComments(comments) ==
  LET acc == RedditLoop(comments, 1, [naughtyCount |-> 0, niceCount |-> 0])
  IN IF IsException(acc) THEN acc
     ELSE LET score == RedditScore(acc.niceCount, acc.naughtyCount)
          IN [score            |-> score,
              verdict          |-> Verdict(score),
              niceCount        |-> acc.niceCount,
              naughtyCount     |-> acc.naughtyCount,
              commentsAnalyzed |-> Len(comments)]

(***************************************************************************)
(* analyzeNewsSnippets: the two news lists and the two general lists.      *)
(***************************************************************************)
RECURSIVE NewsLoop(_, _, _)
NewsLoop(snippets, i, acc) ==
  IF i > Len(snippets) THEN acc
  ELSE IF ~HasText(snippets[i]) THEN TypeError
  ELSE LET text == toLowerCase(snippets[i].text)
       IN NewsLoop(snippets, i + 1,
            [naughtyCount |-> acc.naughtyCount + Matches(text, NEWS_NAUGHTY_KEYWORDS)
                              + Matches(text, NAUGHTY_KEYWORDS),
             niceCount    |-> acc.niceCount + Matches(text, NEWS_NICE_KEYWORDS)
                              + Matches(text, NICE_KEYWORDS)])

NewsScore(niceCount, naughtyCount) == Max(0, Min(100, 50 + (niceCount - naughtyCount) * 4))

analyzeNewsSnippets(snippets) ==
  LET acc == NewsLoop(snippets, 1, [naughtyCount |-> 0, niceCount |-> 0])
  IN IF IsException(acc) THEN acc
     ELSE LET score == NewsScore(acc.niceCount, acc.naughtyCount)
          IN [score            |-> score,
              verdict          |-> Verdict(score),
              niceCount        |-> acc.niceCount,
              naughtyCount     |-> acc.naughtyCount,
              snippetsAnalyzed |-> Len(snippets)]

(***************************************************************************)
(* analyzeGitHubData.  data.user is Null or the profile; bio and blog are  *)
(* strings, the empty string standing for every falsy value; data.events   *)
(* is the parsed events payload.                                           *)
(***************************************************************************)
\* a count that takes the events of every type
CountEveryType(events, type) == Len(events)
\* data.events.filter(e => e.type === type).length
CountType(events, type) == Cardinality({i \in 1..Len(events) : events[i].type = type})

\* the score without its cap
GitHubScoreUnclamped(niceScore) == 50 + niceScore
GitHubScore(niceScore) == Min(100, 50 + niceScore)

analyzeGitHubData(data) ==
  IF data.user = Null THEN [score |-> 50, verdict |-> "NICE", details |-> "No GitHub data"]
  ELSE IF ~data.events.isArray THEN TypeError
  ELSE LET user      == data.user
           events    == data.events.items
           niceScore ==
               (IF user.public_repos > 0 THEN Min(user.public_repos * 2, 20) ELSE 0)
             + (IF user.followers > 0 THEN Min(user.followers, 15) ELSE 0)
             + (IF user.bio # "" THEN 5 ELSE 0)
             + (IF user.blog # "" THEN 5 ELSE 0)
             + CountType(events, "PushEvent") * 2
             + CountType(events, "PullRequestEvent") * 3
             + CountType(events, "IssuesEvent")
           score     == GitHubScore(niceScore)
       IN [score          |-> score,
           verdict        |-> Verdict(score),
           repos          |-> user.public_repos,
           followers      |-> user.followers,
           recentActivity |-> Len(events)]

(***************************************************************************)
(* SCORE_WEIGHTS and calculateWeightedScore.  The literal 0.30 is the      *)
(* double nearest to 30/100.  sources is the list Object.entries gives:    *)
(* <<name, data>> pairs in insertion order.                                *)
(***************************************************************************)
SourceNames == <<"twitter", "reddit", "news", "github">>

\* the decimal literals of the table, as fractions
WeightLiterals ==
  [twitter |-> <<30, 100>>, reddit |-> <<30, 100>>, news |-> <<30, 100>>,
   github |-> <<10, 100>>]

SCORE_WEIGHTS ==
  [s \in DOMAIN WeightLiterals |->
     FDiv(FromInt(WeightLiterals[s][1]), FromInt(WeightLiterals[s][2]))]

\* SCORE_WEIGHTS[source] || 0
WeightOf(source) == IF source \in DOMAIN SCORE_WEIGHTS THEN SCORE_WEIGHTS[source] ELSE Zero

\* data && data.found !== false && data.score !== undefined
Included(data) ==
  /\ data # Null
  /\ ("found" \notin DOMAIN data \/ data.found # FALSE)
  /\ "score" \in DOMAIN data

\* the for loop's running sums: <<weightedSum, totalWeight>>
RECURSIVE WeightedSums(_, _, _, _)
WeightedSums(sources, i, weightedSum, totalWeight) ==
  IF i > Len(sources) THEN <<weightedSum, totalWeight>>
  ELSE IF Included(sources[i][2])
  THEN LET weight == WeightOf(sources[i][1])
       IN WeightedSums(sources, i + 1,
                       FAdd(weightedSum, FMul(FromInt(sources[i][2].score), weight)),
                       FAdd(totalWeight, weight))
  ELSE WeightedSums(sources, i + 1, weightedSum, totalWeight)

\* { ...base, ...data }: the properties of data override those of base
Spread(base, data) ==
  [k \in DOMAIN base \cup DOMAIN data |-> IF k \in DOMAIN data THEN data[k] ELSE base[k]]

\* { score, weight: Math.round(weight * 100) + '%', verdict, ...data }
BreakdownEntry(source, data) ==
  Spread([score  |-> data.score,
          weight |-> ToString(MathRound(FMul(WeightOf(source), FromInt(100)))) \o "%"],
         data)

\* the entries the loop includes, and the last of them written under a name
IncludedEntries(sources) == {i \in 1..Len(sources) : Included(sources[i][2])}
LastIncluded(sources, s) ==
  CHOOSE j \in IncludedEntries(sources) :
    /\ sources[j][1] = s
    /\ \A k \in IncludedEntries(sources) : sources[k][1] = s => k <= j

\* breakdown[source] = { ... } for every included entry
Breakdown(sources) ==
  [s \in {sources[i][1] : i \in IncludedEntries(sources)} |->
     BreakdownEntry(s, sources[LastIncluded(sources, s)][2])]

\* totalWeight > 0 ? Math.round(weightedSum / totalWeight) : 50
\* the quotient with 0 in place of the neutral default
FinalScoreNoDefault(sums) ==
  IF FPositive(sums[2]) THEN MathRound(FDiv(sums[1], sums[2])) ELSE 0
FinalScore(sums) == IF FPositive(sums[2]) THEN MathRound(FDiv(sums[1], sums[2])) ELSE 50

\* the object returned
Aggregate(finalScore, breakdown) ==
  [finalScore   |-> finalScore,
   verdict      |-> Verdict(finalScore),
   breakdown    |-> breakdown,
   sourcesFound |-> Cardinality(DOMAIN breakdown)]

calculateWeightedScore(sources) ==
  Aggregate(FinalScore(WeightedSums(sources, 1, Zero, Zero)), Breakdown(sources))

(***************************************************************************)
(* State.                                                                  *)
(*   twitterClient, redditAccessToken, redditTokenExpiry                   *)
(*                     the module-level caches of server.js                *)
(*   env               process.env: whether the Reddit credentials are set *)
(*   now               the clock Date.now() reads, in milliseconds         *)
(*   startup           whether the initTwitterClient() call made when the  *)
(*                     module loads is still pending                       *)
(*   pc                where the request being served is: the await it is  *)
(*                     suspended at                                        *)
(*   frame             the locals of the request handler                   *)
(*   call              the locals of the fetcher being awaited, and the    *)
(*                     outcomes of the network calls it made               *)
(*   sources, result   the mapping handed to calculateWeightedScore and    *)
(*                     what it returned                                    *)
(*   response          the HTTP response sent                              *)
(*   fnName, fnInput,  an analyzer called on its own: its name, its        *)
(*   fnOutput          argument and what it returned                       *)
(***************************************************************************)
VARIABLES twitterClient, redditAccessToken, redditTokenExpiry, env, now, startup,
          pc, frame, call, sources, result, response, fnName, fnInput, fnOutput

globals  == <<twitterClient, redditAccessToken, redditTokenExpiry, env, now, startup>>
fnVars   == <<fnName, fnInput, fnOutput>>
vars     == <<twitterClient, redditAccessToken, redditTokenExpiry, env, now, startup,
              pc, frame, call, sources, result, response, fnName, fnInput, fnOutput>>

NoResult == [pending |-> TRUE]
SeqsUpTo(S, n) == UNION {[1..k -> S] : k \in 0..n}

(***************************************************************************)
(* Inputs of the analyzers.                                                *)
(***************************************************************************)
SampleTexts ==
  { "I love this",
    "you are stupid",
    "Just had coffee this morning. Weather is okay I guess.",
    "I DONT CARE, total FAILURE",
    "stupid idiot dumb loser trash garbage liar",
    "love happy grateful kind help great best joy" }

NewsTexts ==
  { "Senator accused of fraud in lawsuit",
    "Local hero awarded for charity work",
    "Council meets on Tuesday to discuss the budget",
    "scandal controversy arrested fired backlash outrage guilty",
    "honored praised donates saves achievement success beloved" }

\* an item whose text property is missing (child.data.body undefined)
NoTextItem == [score |-> 1]

TweetItems   == {[text |-> t] : t \in SampleTexts} \cup {NoTextItem}
RedditItems  == {[text |-> "I love this", score |-> 15, subreddit |-> "pics"],
                 [text |-> "you are stupid", score |-> -3, subreddit |-> "pics"],
                 [text |-> "I love this", score |-> 10, subreddit |-> "pics"],
                 [text |-> "Just had coffee this morning. Weather is okay I guess.",
                  score |-> 0, subreddit |-> "pics"],
                 [text |-> "stupid idiot dumb loser trash garbage liar", score |-> -1,
                  subreddit |-> "pics"],
                 [text |-> "love happy grateful kind help great best joy", score |-> 11,
                  subreddit |-> "pics"],
                 [score |-> 1, subreddit |-> "pics"]}
NewsItems    == {[text |-> t] : t \in NewsTexts} \cup {NoTextItem}

EventTypes   == {"PushEvent", "PullRequestEvent", "IssuesEvent", "WatchEvent"}
EventLists   == {[isArray |-> TRUE, items |-> es] :
                   es \in SeqsUpTo({[type |-> t] : t \in EventTypes}, MaxEvents)}
                \cup {[isArray |-> FALSE, items |-> <<>>]}
GitHubUsers  == {[name |-> "Dev", avatar_url |-> "a.png", following |-> 2,
                  public_repos |-> r, followers |-> f, bio |-> b, blog |-> g] :
                   r \in {0, 5, 10, 11}, f \in {0, 7, 15, 16},
                   b \in {"", "bio"}, g \in {"", "blog"}}
GitHubInputs == {[user |-> u, events |-> e, found |-> TRUE] :
                   u \in GitHubUsers, e \in EventLists}
                \cup {[user |-> Null, events |-> [isArray |-> TRUE, items |-> <<>>],
                       found |-> FALSE]}

\* lists of tweets longer than MaxItems, of a nice tweet and a naughty one: more
\* tweets of one polarity than the example lists take
LongTweetLists ==
  UNION {[1..k -> {[text |-> "I love this"], [text |-> "you are stupid"]}] :
           k \in {MaxItems + 1, MaxItems + 2}}

AnalyzerCalls ==
       {<<"analyzeTweets", l>> : l \in SeqsUpTo(TweetItems, MaxItems) \cup LongTweetLists}
  \cup {<<"analyzeRedditComments", l>> : l \in SeqsUpTo(RedditItems, MaxItems)}
  \cup {<<"analyzeNewsSnippets", l>> : l \in SeqsUpTo(NewsItems, MaxItems)}
  \cup {<<"analyzeGitHubData", d>> : d \in GitHubInputs}

(***************************************************************************)
(* Inputs of calculateWeightedScore: for each source no entry, an entry    *)
(* with found: false, an entry without a score, an entry without a found   *)
(* flag, or a found entry with a score.                                    *)
(***************************************************************************)
AggScores == {0, 17, 50, 82, 100}
Absent    == [absent |-> TRUE]
AggEntries ==
  {Absent, [found |-> FALSE], [found |-> TRUE], [score |-> 50, verdict |-> "NICE"]}
  \cup {[found |-> TRUE, score |-> s, verdict |-> Verdict(s)] : s \in AggScores}

RECURSIVE EntriesFrom(_, _)
EntriesFrom(choice, i) ==
  IF i > Len(SourceNames) THEN <<>>
  ELSE (IF choice[i] = Absent THEN <<>> ELSE << <<SourceNames[i], choice[i]>> >>)
       \o EntriesFrom(choice, i + 1)

AggInputs == {EntriesFrom(c, 1) : c \in [1..Len(SourceNames) -> AggEntries]}

\* the server as the module leaves it when loaded, no request in progress
NoFrame    == [handler |-> "none"]
NoCall     == [fn |-> "none"]
NoResponse == [status |-> 0]
ServerIdle ==
  /\ twitterClient = Null
  /\ redditAccessToken = Null
  /\ redditTokenExpiry = 0
  /\ env = [redditCredentials |-> TRUE]
  /\ now = 0
  /\ startup = "pending"
  /\ pc = "idle"
  /\ frame = NoFrame
  /\ call = NoCall
  /\ response = NoResponse

(***************************************************************************)
(* The analyzers on their own.                                             *)
(***************************************************************************)
InitAnalyze ==
  /\ \E c \in AnalyzerCalls : fnName = c[1] /\ fnInput = c[2]
  /\ fnOutput = NoResult
  /\ sources = <<>>
  /\ result = NoResult
  /\ ServerIdle

CallAnalyzeTweets ==
  /\ fnName = "analyzeTweets" /\ fnOutput = NoResult
  /\ fnOutput' = analyzeTweets(fnInput)
  /\ UNCHANGED <<sources, result, fnName, fnInput, globals, pc, frame, call, response>>

CallAnalyzeRedditComments ==
  /\ fnName = "analyzeRedditComments" /\ fnOutput = NoResult
  /\ fnOutput' = analyzeRedditComments(fnInput)
  /\ UNCHANGED <<sources, result, fnName, fnInput, globals, pc, frame, call, response>>

CallAnalyzeNewsSnippets ==
  /\ fnName = "analyzeNewsSnippets" /\ fnOutput = NoResult
  /\ fnOutput' = analyzeNewsSnippets(fnInput)
  /\ UNCHANGED <<sources, result, fnName, fnInput, globals, pc, frame, call, response>>

CallAnalyzeGitHubData ==
  /\ fnName = "analyzeGitHubData" /\ fnOutput = NoResult
  /\ fnOutput' = analyzeGitHubData(fnInput)
  /\ UNCHANGED <<sources, result, fnName, fnInput, globals, pc, frame, call, response>>

NextAnalyze ==
  \/ CallAnalyzeTweets
  \/ CallAnalyzeRedditComments
  \/ CallAnalyzeNewsSnippets
  \/ CallAnalyzeGitHubData

SpecAnalyze == InitAnalyze /\ [][NextAnalyze]_vars

(***************************************************************************)
(* calculateWeightedScore on its own.                                      *)
(***************************************************************************)
InitAgg ==
  /\ sources \in AggInputs
  /\ result = NoResult
  /\ fnName = "calculateWeightedScore" /\ fnInput = <<>> /\ fnOutput = NoResult
  /\ ServerIdle

CallCalculateWeightedScore ==
  /\ result = NoResult
  /\ result' = calculateWeightedScore(sources)
  /\ UNCHANGED <<sources, fnVars, globals, pc, frame, call, response>>

NextAgg == CallCalculateWeightedScore

SpecAgg == InitAgg /\ [][NextAgg]_vars

(***************************************************************************)
(* Strings of the request handlers.                                        *)
(***************************************************************************)
\* String.prototype.replace with a string pattern: the first occurrence only
replace(text, pattern, replacement) ==
  IF includes(text, pattern)
  THEN LET i == CHOOSE j \in 1..Len(text) :
                  /\ SubSeq(text, j, j + Len(pattern) - 1) = pattern
                  /\ \A k \in 1..(j - 1) : SubSeq(text, k, k + Len(pattern) - 1) # pattern
       IN SubSeq(text, 1, i - 1) \o replacement \o SubSeq(text, i + Len(pattern), Len(text))
  ELSE text

RECURSIVE trimStart(_)
trimStart(text) ==
  IF Len(text) > 0 /\ SubSeq(text, 1, 1) = " " THEN trimStart(SubSeq(text, 2, Len(text)))
  ELSE text
RECURSIVE trimEnd(_)
trimEnd(text) ==
  IF Len(text) > 0 /\ SubSeq(text, Len(text), Len(text)) = " "
  THEN trimEnd(SubSeq(text, 1, Len(text) - 1))
  ELSE text
trim(text) == trimEnd(trimStart(text))

\* username.replace('@', '').trim()
CleanUsername(username) == trim(replace(username, "@", ""))

UpperChar(c) ==
  IF \E i \in 1..Len(LowerCase) : SubSeq(LowerCase, i, i) = c
  THEN LET i == CHOOSE j \in 1..Len(LowerCase) : SubSeq(LowerCase, j, j) = c
       IN SubSeq(UpperCase, i, i)
  ELSE c
\* s.charAt(0).toUpperCase() + s.slice(1)
Capitalize(s) == IF s = "" THEN "" ELSE UpperChar(SubSeq(s, 1, 1)) \o SubSeq(s, 2, Len(s))

(***************************************************************************)
(* Fixed data.  Counts shown in a profile are kept as strings (the code    *)
(* mixes numbers with the placeholder dash).                               *)
(***************************************************************************)
NITTER_INSTANCES ==
  << "nitter.net", "nitter.poast.org", "nitter.privacydev.net", "nitter.1d4.us",
     "nitter.kavin.rocks", "nitter.unixfox.eu" >>

Dash == "-"

\* the entry of CACHED_REAL_DATA that the requests of the model can hit
CACHED_REAL_DATA ==
  [elonmusk |->
    [user |-> [name |-> "Elon Musk",
               profileImage |-> "https://unavatar.io/twitter/elonmusk",
               description |-> "CEO of Tesla, SpaceX, X. Technoking.",
               followers |-> "195M", following |-> "783", tweets |-> "52000"],
     tweets |->
    << [text |-> "The thing I love most about X is the real-time nature of the platform"],
       [text |-> "Tesla Cybertruck is incredible. Best vehicle we've ever made."],
       [text |-> "SpaceX Starship is the future of humanity becoming multiplanetary"],
       [text |-> "AI will be the most transformative technology in human history"],
       [text |-> "I hate when people spread fake news. It's terrible for society."],
       [text |-> "Thank you to all the amazing Tesla owners and supporters!"],
       [text |-> "The mainstream media is so biased it's disgusting"],
       [text |-> "Free speech is the bedrock of democracy. Support it!"],
       [text |-> "Working 120 hour weeks. Sleep is for the weak lol"],
       [text |-> "I love building things that help humanity"],
       [text |-> "The haters are so annoying. Just ignore them."],
       [text |-> "Grateful for the incredible team at SpaceX. You're all amazing!"],
       [text |-> "Some idiots don't understand basic physics"],
       [text |-> "Hope everyone has a wonderful day! Be kind to each other."],
       [text |-> "This is stupid. Why do people believe this garbage?"] >>]]

CachedData(cleanUsername) ==
  IF toLowerCase(cleanUsername) \in DOMAIN CACHED_REAL_DATA
  THEN CACHED_REAL_DATA[toLowerCase(cleanUsername)] ELSE Null

(***************************************************************************)
(* Network outcomes.  An exchange ends in a network error, a timeout, or a *)
(* response with a status and a body.                                      *)
(***************************************************************************)
NetError   == [kind |-> "error"]
NetTimeout == [kind |-> "timeout"]
NetworkException == [exception |-> "NetworkError"]
SyntaxError      == [exception |-> "SyntaxError"]

\* try { ... } catch (err) { return fallback }
Catch(value, fallback) == IF IsException(value) THEN fallback ELSE value

(***************************************************************************)
(* fetchUrl and parseNitterRSS.  A feed is the list of its <item>          *)
(* elements, each with the cleaned text of its title and description when  *)
(* it has them.                                                            *)
(***************************************************************************)
RECURSIVE ParseItems(_, _)
ParseItems(items, i) ==
  IF i > Len(items) THEN <<>>
  ELSE LET item == items[i]
           text == IF "description" \in DOMAIN item THEN item.description ELSE item.title
       IN (IF ("title" \in DOMAIN item \/ "description" \in DOMAIN item) /\ Len(text) > 0
           THEN << [text |-> text, link |-> item.link, date |-> ""] >>
           ELSE <<>>)
          \o ParseItems(items, i + 1)
parseNitterRSS(xml) == ParseItems(xml.items, 1)

Feeds ==
  { [items |-> <<>>],
    [items |-> << [link |-> "l1"], [link |-> "l2", description |-> ""] >>],
    [items |-> << [link |-> "l1", title |-> "t", description |-> "I love this"],
                  [link |-> "l2", title |-> "you are stupid"] >>] }

\* what one GET of fetchUrl can end in
FetchUrlOutcomes ==
  {NetError, NetTimeout,
   [kind |-> "response", statusCode |-> 404],
   [kind |-> "response", statusCode |-> 301, location |-> TRUE],
   [kind |-> "response", statusCode |-> 302, location |-> FALSE]}
  \cup {[kind |-> "response", statusCode |-> 200, body |-> f] : f \in Feeds}

IsRedirect(o) == o.kind = "response" /\ o.statusCode \in {301, 302}

\* xml && xml.includes('<item>'), then the parsed tweets; <<>> when the test fails
TweetsOf(o) ==
  IF o.kind = "response" /\ o.statusCode = 200 /\ Len(o.body.items) > 0
  THEN parseNitterRSS(o.body) ELSE <<>>

(***************************************************************************)
(* initTwitterClient and the search API.                                   *)
(***************************************************************************)
TheClient == [bearer |-> "app-only"]
\* appLogin() resolves with a client or rejects
LoginOutcomes == {[ok |-> TRUE, client |-> TheClient], [ok |-> FALSE]}

\* if (twitterClient) return twitterClient
ClientCached(client) == client # Null

\* lines 133-144, from the answer of appLogin on:
\* <<the value returned, the new twitterClient>>
AfterLoginClearing(client, login) ==
  IF login.ok THEN <<login.client, login.client>> ELSE <<Null, Null>>
AfterLogin(client, login) ==
  IF login.ok THEN <<login.client, login.client>> ELSE <<Null, client>>

SearchOutcomes ==
  { [kind |-> "error"],
    [kind |-> "result", data |-> <<>>, users |-> <<>>],
    [kind |-> "result",
     data |-> << [text |-> "Grateful for the support"], [text |-> "I hate mondays"] >>,
     users |-> << [username |-> "ElonMusk", name |-> "Elon", profile_image_url |-> "p_normal.png",
                   description |-> "desc", followers_count |-> 7, following_count |-> 0,
                   tweet_count |-> 9] >>],
    [kind |-> "result", data |-> << [text |-> "Thanks team"] >>, users |-> <<>>] }

\* value || fallback for a count shown in a profile.  The code's profiles mix
\* numeric counts (tweets.length, public_metrics) with text ('229.8M', the dash);
\* a count is kept here as its decimal text so that profiles stay comparable.
CountOr(n, fallback) == IF n # 0 THEN ToString(n) ELSE fallback
TextOr(s, fallback)  == IF s # "" THEN s ELSE fallback

\* the user object built from a search result (lines 1158-1167 and 1032-1041)
SearchUser(o, cleanUsername, nameFallback) ==
  IF o.users = <<>>
  THEN [username |-> cleanUsername, name |-> nameFallback,
        profileImage |-> "https://unavatar.io/twitter/" \o cleanUsername,
        description |-> "", followers |-> "0", following |-> "0",
        tweets |-> ToString(Len(o.data))]
  ELSE LET a == o.users[1]
       IN [username |-> TextOr(a.username, cleanUsername),
           name |-> TextOr(a.name, nameFallback),
           profileImage |-> TextOr(replace(a.profile_image_url, "_normal", "_400x400"),
                                   "https://unavatar.io/twitter/" \o cleanUsername),
           description |-> a.description,
           followers |-> CountOr(a.followers_count, "0"),
           following |-> CountOr(a.following_count, "0"),
           tweets |-> CountOr(a.tweet_count, ToString(Len(o.data)))]

(***************************************************************************)
(* DEMO_USERS and generateDemoTweets (texts without their emoji).          *)
(***************************************************************************)
DEMO_USERS ==
  [santa  |-> [name |-> "Santa Claus",
               profileImage |-> "https://pbs.twimg.com/profile_images/1545476569_400x400.png",
               description |-> "Delivering joy worldwide since forever!",
               followers |-> "999999999", following |-> "1", tweets |-> "25000"],
   grinch |-> [name |-> "The Grinch",
               profileImage |-> "https://pbs.twimg.com/profile_images/grinch_400x400.png",
               description |-> "I hate Christmas. And noise. And everything.",
               followers |-> "666", following |-> "0", tweets |-> "500"]]

DEMO_NICE_TWEETS ==
  << [text |-> "I love helping my community! Just volunteered at the local shelter today. So grateful for the opportunity!"],
     [text |-> "Thank you everyone for the amazing support! You're all wonderful and I appreciate each one of you!"],
     [text |-> "Congratulations to the team on this incredible achievement! So happy for everyone involved!"],
     [text |-> "Spread kindness wherever you go. A simple smile can make someone's day beautiful!"],
     [text |-> "Feeling blessed and thankful for my amazing family and friends. Hope everyone has a great day!"],
     [text |-> "Just donated to charity. If you can help others, please do! Together we can make a difference."],
     [text |-> "Love seeing people support each other! This community is fantastic and inspiring!"],
     [text |-> "Happy birthday to my best friend! You're the most wonderful person I know!"] >>

DEMO_NAUGHTY_TWEETS ==
  << [text |-> "This is so stupid. I hate when people do this garbage. So annoying!"],
     [text |-> "Everyone is a loser except me. These idiots don't know what they're doing."],
     [text |-> "Terrible service again. The worst company ever. Complete failure!"],
     [text |-> "I don't care what anyone thinks. Shut up and leave me alone."],
     [text |-> "What a pathetic display. Disgusting behavior from everyone involved."],
     [text |-> "Stop being so annoying! This is the dumbest thing I've ever seen!"] >>

DEMO_NEUTRAL_TWEETS ==
  << [text |-> "Just had coffee this morning. Weather is okay I guess."],
     [text |-> "Working on a new project. Will share updates later."],
     [text |-> "Watched a movie last night. It was interesting."],
     [text |-> "Traffic was busy today. Made it to work on time though."] >>

Digits == "0123456789"
IndexIn(c, s) == CHOOSE k \in 1..Len(s) : SubSeq(s, k, k) = c
\* the UTF-16 code of a character of a username: a digit, a letter or an underscore
CharCode(c) ==
  IF includes(Digits, c) THEN 47 + IndexIn(c, Digits)
  ELSE IF includes(UpperCase, c) THEN 64 + IndexIn(c, UpperCase)
  ELSE IF includes(LowerCase, c) THEN 96 + IndexIn(c, LowerCase)
  ELSE 95
charCodeAt(s, i) == CharCode(SubSeq(s, i, i))

RECURSIVE HashFrom(_, _)
\* username.split('').reduce((a, b) => a + b.charCodeAt(0), 0)
HashFrom(s, i) == IF i > Len(s) THEN 0 ELSE charCodeAt(s, i) + HashFrom(s, i + 1)

FNeg(a) == [a EXCEPT !.s = -a.s]
\* a < b
FLess(a, b) == FPositive(FAdd(b, FNeg(a)))

TotalTweets == 50

SixTenths == FDiv(FromInt(6), FromInt(10))
\* niceRatio * 0.6 + (1 - niceRatio) * 0.6
NaughtyBound(niceRatio) ==
  FAdd(FMul(niceRatio, SixTenths), FMul(FAdd(FromInt(1), FNeg(niceRatio)), SixTenths))

\* the tweet iteration i of the loop pushes
DemoChoice(rand, niceRatio, i) ==
  IF FLess(rand, FMul(niceRatio, SixTenths))
  THEN DEMO_NICE_TWEETS[(i % Len(DEMO_NICE_TWEETS)) + 1]
  ELSE IF FLess(rand, NaughtyBound(niceRatio))
  THEN DEMO_NAUGHTY_TWEETS[(i % Len(DEMO_NAUGHTY_TWEETS)) + 1]
  ELSE DEMO_NEUTRAL_TWEETS[(i % Len(DEMO_NEUTRAL_TWEETS)) + 1]

\* rand = ((hash * (i + 1)) % 100) / 100, niceRatio = (hash % 100) / 100
DemoPick(hash, i) ==
  DemoChoice(FDiv(FromInt((hash * (i + 1)) % 100), FromInt(100)),
             FDiv(FromInt(hash % 100), FromInt(100)), i)

\* for (let i = 0; i < totalTweets; i++) tweets.push(...)
generateDemoTweets(username) ==
  [k \in 1..TotalTweets |-> DemoPick(HashFrom(username, 1), k - 1)]

\* DEMO_USERS[cleanUsername] || { ... }, under the username; the three random
\* counts of the generated profile are not modelled
DemoUser(cleanUsername) ==
  LET demoUser == IF cleanUsername \in DOMAIN DEMO_USERS THEN DEMO_USERS[cleanUsername]
                  ELSE [name |-> Capitalize(cleanUsername),
                        profileImage |-> "https://api.dicebear.com/7.x/avataaars/png?seed="
                                         \o cleanUsername,
                        description |-> "Demo profile for @" \o cleanUsername,
                        followers |-> "random", following |-> "random",
                        tweets |-> "random"]
  IN [k \in {"username"} \cup DOMAIN demoUser |->
        IF k \in DOMAIN demoUser THEN demoUser[k] ELSE cleanUsername]

(***************************************************************************)
(* generateDemoTweets and analyzeTweets are pure: their values on the      *)
(* arguments the requests below can hand them are computed once.           *)
(***************************************************************************)
Usernames == {"@ElonMusk", "torvalds", " dev@corp "}

GeneratedDemoTweets ==
  [u \in {CleanUsername(x) : x \in Usernames} |-> generateDemoTweets(u)]
DemoTweets(cleanUsername) ==
  IF cleanUsername \in DOMAIN GeneratedDemoTweets THEN GeneratedDemoTweets[cleanUsername]
  ELSE generateDemoTweets(cleanUsername)

RequestTweets ==
       {CACHED_REAL_DATA[u].tweets : u \in DOMAIN CACHED_REAL_DATA}
  \cup {GeneratedDemoTweets[u] : u \in DOMAIN GeneratedDemoTweets}
  \cup {parseNitterRSS(f) : f \in Feeds}
  \cup {o.data : o \in {x \in SearchOutcomes : x.kind = "result"}}
\* analyzeTweets on every list of tweets a request can reach
TweetAnalysis == [tweets \in RequestTweets |-> analyzeTweets(tweets)]
(***************************************************************************)
(* getRedditToken and fetchRedditData.                                     *)
(***************************************************************************)
\* redditAccessToken && Date.now() < redditTokenExpiry
TokenCached(token, expiry, t) == token # Null /\ t < expiry

\* what the token request can end in: the parsed JSON carries access_token or not
TokenOutcomes ==
  { NetError,
    [kind |-> "response", valid |-> FALSE],
    [kind |-> "response", valid |-> TRUE, data |-> [error |-> "invalid_grant"]],
    [kind |-> "response", valid |-> TRUE,
     data |-> [access_token |-> [bearer |-> "reddit"], expires_in |-> 120]] }

TokenGranted(o) == o.kind = "response" /\ o.valid /\ "access_token" \in DOMAIN o.data

\* an expiry without the safety margin
ExpiryOfNoMargin(t, data) == t + (data.expires_in * 1000)
\* Date.now() + (data.expires_in * 1000) - 60000
ExpiryOf(t, data) == t + (data.expires_in * 1000) - 60000

Children ==
  { <<>>,
    << [data |-> [body |-> "I love this", score |-> 15, subreddit |-> "pics"]],
       [data |-> [body |-> "you are stupid", score |-> -3, subreddit |-> "pics"]] >>,
    << [data |-> [score |-> 1, subreddit |-> "pics"]] >>,
    << [kind |-> "t1"] >> }

\* what the comments request can end in
CommentsOutcomes ==
  { NetError,
    [kind |-> "response", ok |-> FALSE, valid |-> TRUE, json |-> [error |-> 404]],
    [kind |-> "response", ok |-> TRUE, valid |-> FALSE, json |-> [error |-> 0]],
    [kind |-> "response", ok |-> TRUE, valid |-> TRUE, json |-> [error |-> 404]] }
  \cup {[kind |-> "response", ok |-> TRUE, valid |-> TRUE,
         json |-> [data |-> [children |-> c]]] : c \in Children}

\* child => ({ text: child.data.body, score: child.data.score, subreddit: ... })
MapChild(child) ==
  IF "body" \in DOMAIN child.data
  THEN [text |-> child.data.body, score |-> child.data.score,
        subreddit |-> child.data.subreddit]
  ELSE [score |-> child.data.score, subreddit |-> child.data.subreddit]

\* the body of the try block, from the comments response on
RedditTry(o) ==
  IF o.kind # "response" THEN NetworkException
  ELSE IF ~o.ok THEN [comments |-> <<>>, found |-> FALSE]
  ELSE IF ~o.valid THEN SyntaxError
  ELSE LET children == IF "data" \in DOMAIN o.json THEN o.json.data.children ELSE <<>>
       IN IF \E i \in 1..Len(children) : "data" \notin DOMAIN children[i] THEN TypeError
          ELSE [comments |-> [i \in 1..Len(children) |-> MapChild(children[i])],
                found |-> TRUE]

fetchRedditData(o) == Catch(RedditTry(o), [comments |-> <<>>, found |-> FALSE])

(***************************************************************************)
(* fetchNewsData.  The page is the list of the texts of its result         *)
(* snippets and the list of the texts of its result titles, tags stripped  *)
(* and entities decoded.                                                   *)
(***************************************************************************)
SnippetCap == 20
TotalCap == 30
SnippetMinLength == 20
TitleMinLength == 10

RECURSIVE Extract(_, _, _, _, _)
\* while ((match = regex.exec(html)) !== null && snippets.length < cap) { ... }
Extract(texts, i, snippets, cap, minLength) ==
  IF i > Len(texts) \/ Len(snippets) >= cap THEN snippets
  ELSE Extract(texts, i + 1,
               IF Len(texts[i]) > minLength THEN Append(snippets, [text |-> texts[i]])
               ELSE snippets,
               cap, minLength)

Pages ==
  { [snippets |-> <<>>, titles |-> <<>>],
    [snippets |-> <<"too short">>, titles |-> <<"short">>],
    [snippets |-> <<"Senator accused of fraud in lawsuit">>,
     titles |-> <<"Local hero awarded for charity work">>] }

NewsOutcomes ==
  {NetError, [kind |-> "response", ok |-> TRUE, readable |-> FALSE,
              html |-> [snippets |-> <<>>, titles |-> <<>>]]}
  \cup {[kind |-> "response", ok |-> k, readable |-> TRUE, html |-> p] :
          k \in BOOLEAN, p \in Pages}

NewsTry(o) ==
  IF o.kind # "response" \/ ~o.readable THEN NetworkException
  ELSE LET snippets == Extract(o.html.titles, 1,
                               Extract(o.html.snippets, 1, <<>>, SnippetCap, SnippetMinLength),
                               TotalCap, TitleMinLength)
       IN [snippets |-> snippets, found |-> Len(snippets) > 0]

fetchNewsData(o) == Catch(NewsTry(o), [snippets |-> <<>>, found |-> FALSE])

(***************************************************************************)
(* fetchGitHubData: the profile request, then the events request.          *)
(***************************************************************************)
NoEvents == [isArray |-> TRUE, items |-> <<>>]
NotFoundGitHub == [user |-> Null, events |-> NoEvents, found |-> FALSE]

TheProfile ==
  [name |-> "Dev", avatar_url |-> "a.png", following |-> 2,
   public_repos |-> 11, followers |-> 16, bio |-> "bio", blog |-> ""]

\* the parsed body is the profile, or the JSON null
ProfileOutcomes ==
  { NetError,
    [kind |-> "response", ok |-> FALSE, valid |-> TRUE, json |-> Null],
    [kind |-> "response", ok |-> TRUE, valid |-> FALSE, json |-> Null],
    [kind |-> "response", ok |-> TRUE, valid |-> TRUE, json |-> Null],
    [kind |-> "response", ok |-> TRUE, valid |-> TRUE, json |-> TheProfile] }

EventsOutcomes ==
  { NetError,
    [kind |-> "response", ok |-> FALSE, valid |-> TRUE, json |-> NoEvents],
    [kind |-> "response", ok |-> TRUE, valid |-> FALSE, json |-> NoEvents],
    [kind |-> "response", ok |-> TRUE, valid |-> TRUE, json |-> NoEvents],
    [kind |-> "response", ok |-> TRUE, valid |-> TRUE,
     json |-> [isArray |-> TRUE,
               items |-> << [type |-> "PushEvent"], [type |-> "PullRequestEvent"] >>]],
    [kind |-> "response", ok |-> TRUE, valid |-> TRUE,
     json |-> [isArray |-> FALSE, items |-> <<>>]] }

\* the try block up to the events request: "continue" when the events are requested,
\* else what the fetcher returns (or throws)
GitHubProfileTry(o) ==
  IF o.kind # "response" THEN NetworkException
  ELSE IF ~o.ok THEN NotFoundGitHub
  ELSE IF ~o.valid THEN SyntaxError
  ELSE [continue |-> TRUE, user |-> o.json]

\* the try block from the events response on; user.public_repos is read for the log
GitHubEventsTry(user, o) ==
  IF o.kind # "response" THEN NetworkException
  ELSE IF o.ok /\ ~o.valid THEN SyntaxError
  ELSE IF user = Null THEN TypeError
  ELSE [user |-> user, events |-> IF o.ok THEN o.json ELSE NoEvents, found |-> TRUE]

(***************************************************************************)
(* fetchNitterTweets.  The locals of one call: the index i of the mirror   *)
(* being tried, the redirect hops fetchUrl has followed for it, the list   *)
(* of the mirrors requested so far (attempts) and, for each mirror that    *)
(* has answered, whether its answer was a feed with an extractable item    *)
(* (good).                                                                 *)
(***************************************************************************)
MaxRedirects == 2

\* the answer is a 200 feed in which some item has a non-empty text
GoodFeed(o) ==
  /\ o.kind = "response" /\ o.statusCode = 200
  /\ \E k \in 1..Len(o.body.items) :
       LET item == o.body.items[k]
       IN IF "description" \in DOMAIN item THEN item.description # ""
          ELSE "title" \in DOMAIN item /\ item.title # ""

\* a loop that steps over a mirror
NextInstanceSkip(i) == i + 2
\* for (const instance of NITTER_INSTANCES): the mirror after mirror i
NextInstance(i) == i + 1

StartNitter(username) ==
  [fn |-> "fetchNitterTweets", username |-> username, last |-> Null, i |-> 1, hops |-> 0, attempts |-> <<1>>, good |-> <<>>,
   returned |-> FALSE, result |-> [tweets |-> <<>>, instance |-> Null]]

\* one answer to the GET of fetchUrl, and the loop up to the next GET or the return
AfterMirror(c, o) ==
  IF IsRedirect(o) /\ o.location THEN [c EXCEPT !.hops = @ + 1]
  ELSE IF TweetsOf(o) # <<>>
  THEN [c EXCEPT !.good = Append(@, GoodFeed(o)), !.returned = TRUE,
                 !.result = [tweets |-> TweetsOf(o), instance |-> NITTER_INSTANCES[c.i]]]
  ELSE IF NextInstance(c.i) <= Len(NITTER_INSTANCES)
  THEN [c EXCEPT !.good = Append(@, GoodFeed(o)), !.i = NextInstance(c.i), !.hops = 0,
                 !.attempts = Append(@, NextInstance(c.i))]
  ELSE [c EXCEPT !.good = Append(@, GoodFeed(o)), !.returned = TRUE,
                 !.result = [tweets |-> <<>>, instance |-> Null]]

(***************************************************************************)
(* The profiles the handlers build.                                        *)
(***************************************************************************)
Unavatar(cleanUsername) == "https://unavatar.io/twitter/" \o cleanUsername

\* lines 1133-1141 and 1004-1012
NitterUser(cleanUsername, name, tweets) ==
  [username |-> cleanUsername, name |-> name, profileImage |-> Unavatar(cleanUsername),
   description |-> "@" \o cleanUsername \o " on Twitter/X",
   followers |-> Dash, following |-> Dash, tweets |-> ToString(Len(tweets))]

\* { username: cleanUsername, ...cachedData.user }
CachedUser(cleanUsername, cachedData) ==
  [k \in {"username"} \cup DOMAIN cachedData.user |->
     IF k \in DOMAIN cachedData.user THEN cachedData.user[k] ELSE cleanUsername]

\* lines 1195-1203
PlaceholderUser(cleanUsername) ==
  [username |-> cleanUsername, name |-> cleanUsername,
   profileImage |-> Unavatar(cleanUsername), description |-> "@" \o cleanUsername,
   followers |-> Dash, following |-> Dash, tweets |-> Dash]

\* lines 1262-1270
GitHubUser(cleanUsername, user) ==
  [username |-> cleanUsername,
   name |-> TextOr(user.name, cleanUsername),
   profileImage |-> TextOr(user.avatar_url, "https://unavatar.io/" \o cleanUsername),
   description |-> TextOr(user.bio, "Multi-platform analysis for " \o cleanUsername),
   followers |-> CountOr(user.followers, Dash),
   following |-> CountOr(user.following, Dash),
   tweets |-> Dash]

\* lines 1272-1280
GenericUser(cleanUsername) ==
  [username |-> cleanUsername, name |-> cleanUsername,
   profileImage |-> "https://unavatar.io/" \o cleanUsername,
   description |-> "Multi-platform analysis for " \o cleanUsername,
   followers |-> Dash, following |-> Dash, tweets |-> Dash]

\* { ...analysis, found: true }
Found(analysis) ==
  [k \in DOMAIN analysis \cup {"found"} |-> IF k = "found" THEN TRUE ELSE analysis[k]]
NotFound == [found |-> FALSE]

(***************************************************************************)
(* /api/analyze-all between its awaits.  A stage of the primary-source     *)
(* fetch is logged in frame.stages when its outcome is known, with whether *)
(* it produced items.                                                      *)
(***************************************************************************)
Stage(name, items) == [stage |-> name, items |-> items # <<>>]

\* the cache fallback without the test of tweets.length
UseCacheAlways(tweets, cachedData) == cachedData # Null
\* if (tweets.length === 0 && cachedData)
UseCache(tweets, cachedData) == tweets = <<>> /\ cachedData # Null

\* lines 1176-1181: the cache fallback replaces the tweets and the user
CacheTweets(f, cachedData) ==
  IF UseCache(f.tweets, cachedData) THEN cachedData.tweets ELSE f.tweets
CacheUser(f, cachedData) ==
  IF UseCache(f.tweets, cachedData) THEN CachedUser(f.cleanUsername, cachedData)
  ELSE f.twitterUser
CacheStages(f, cachedData) ==
  IF UseCache(f.tweets, cachedData)
  THEN Append(f.stages, Stage("cache", cachedData.tweets))
  ELSE IF f.tweets = <<>> THEN Append(f.stages, Stage("cache", <<>>))
  ELSE f.stages

\* lines 1183-1192: tweets were found
FoundRecord(f, tweets, twitterUser, stages, analysis) ==
  IF IsException(analysis) THEN analysis
  ELSE [frame |-> [f EXCEPT !.tweets = tweets, !.twitterUser = twitterUser,
                            !.primaryUser = twitterUser, !.stages = stages],
        entry |-> Found(analysis)]

\* lines 1183-1204: the twitter entry of sources
TwitterEntry(f, tweets, twitterUser, stages) ==
  IF tweets # <<>>
  THEN FoundRecord(f, tweets, twitterUser, stages, TweetAnalysis[tweets])
  ELSE [frame |-> [f EXCEPT !.primaryUser = PlaceholderUser(f.cleanUsername),
                            !.stages = Append(stages, Stage("notFound", <<>>))],
        entry |-> NotFound]

RecordFromCache(f, cachedData) ==
  TwitterEntry(f, CacheTweets(f, cachedData), CacheUser(f, cachedData),
               CacheStages(f, cachedData))

\* lines 1176-1204: the cache fallback and the twitter entry of sources.  Gives the
\* frame and the entry, or the exception analyzeTweets threw
TwitterRecord(f) == RecordFromCache(f, CachedData(f.cleanUsername))

\* lines 1209-1219
RedditEntry(redditData) ==
  IF redditData.found /\ Len(redditData.comments) > 0
  THEN LET redditAnalysis == analyzeRedditComments(redditData.comments)
       IN IF IsException(redditAnalysis) THEN redditAnalysis ELSE Found(redditAnalysis)
  ELSE NotFound

\* lines 1224-1234
NewsEntry(newsData) ==
  IF newsData.found /\ Len(newsData.snippets) > 0
  THEN LET newsAnalysis == analyzeNewsSnippets(newsData.snippets)
       IN IF IsException(newsAnalysis) THEN newsAnalysis ELSE Found(newsAnalysis)
  ELSE NotFound

\* lines 1239-1249
GitHubEntry(githubData) ==
  IF githubData.found
  THEN LET githubAnalysis == analyzeGitHubData(githubData)
       IN IF IsException(githubAnalysis) THEN githubAnalysis ELSE Found(githubAnalysis)
  ELSE NotFound

\* lines 1260-1282
PrimaryUser(primaryUser, cleanUsername, githubEntry, githubData) ==
  IF primaryUser = Null
  THEN IF githubEntry.found /\ githubData.user # Null
       THEN GitHubUser(cleanUsername, githubData.user)
       ELSE GenericUser(cleanUsername)
  ELSE primaryUser

BadRequest  == [status |-> 400, body |-> [error |-> "Username is required"]]
ServerError == [status |-> 500,
                body |-> [error |-> "Failed to analyze user. Please try again."]]

\* res.json({ user, finalScore, verdict, breakdown, sourcesFound, weights })
MultiSourceResponse(primaryUser, r) ==
  [status |-> 200,
   body |-> [user |-> primaryUser, finalScore |-> r.finalScore, verdict |-> r.verdict,
             breakdown |-> r.breakdown, sourcesFound |-> r.sourcesFound,
             weights |-> SCORE_WEIGHTS]]

(***************************************************************************)
(* Requests.                                                               *)
(***************************************************************************)
MaxNow == 1
TickMs == 60 * 1000

\* req.body of /api/analyze-all: with a username, with an empty one, without one
AnalyzeAllBodies == {[username |-> u] : u \in Usernames \cup {""}} \cup {[other |-> TRUE]}
\* req.body of /api/analyze
AnalyzeBodies ==
  {[username |-> u, demo |-> d] : u \in Usernames \cup {""}, d \in BOOLEAN}
  \cup {[demo |-> FALSE]}

\* a test that lets an empty username through
NoUsernameAbsentOnly(body) == "username" \notin DOMAIN body
\* !username
NoUsername(body) == "username" \notin DOMAIN body \/ body.username = ""

Envs == {[redditCredentials |-> b] : b \in BOOLEAN}

Init ==
  /\ twitterClient = Null
  /\ redditAccessToken = Null
  /\ redditTokenExpiry = 0
  /\ env \in Envs
  /\ now = 0
  /\ startup = "pending"
  /\ pc = "idle"
  /\ frame = NoFrame
  /\ call = NoCall
  /\ response = NoResponse
  /\ sources = <<>>
  /\ result = NoResult
  /\ fnName = "none" /\ fnInput = <<>> /\ fnOutput = NoResult

tokenCache == <<redditAccessToken, redditTokenExpiry>>

\* Date.now() moves on while the server is idle or waits for the token endpoint
Tick ==
  /\ pc \in {"idle", "redditToken"}
  /\ now < MaxNow * TickMs
  /\ now' = now + TickMs
  /\ UNCHANGED <<twitterClient, tokenCache, env, startup, pc, frame, call, sources,
                 result, response, fnVars>>

\* the initTwitterClient() call made when the module is loaded completes
StartupLogin ==
  /\ startup = "pending"
  /\ \E login \in LoginOutcomes :
       twitterClient' = AfterLogin(twitterClient, login)[2]
  /\ startup' = "done"
  /\ UNCHANGED <<tokenCache, env, now, pc, frame, call, sources, result, response, fnVars>>

Respond(r) ==
  /\ response' = r
  /\ pc' = "responded"

\* headers that carry an Authorization entry whatever the token is
RedditHeadersAlways(token) == {"User-Agent", "Authorization"}
\* lines 196-203: the header names of the comments request
RedditHeaders(token) ==
  IF token # Null THEN {"User-Agent", "Authorization"} ELSE {"User-Agent"}

\* fetchRedditData is called: getRedditToken up to its first await
CallFetchRedditData(username) ==
  LET cached == TokenCached(redditAccessToken, redditTokenExpiry, now)
  IN /\ call' = [fn |-> "fetchRedditData", username |-> username,
                 token |-> IF cached THEN redditAccessToken ELSE Null,
                 headers |-> RedditHeaders(IF cached THEN redditAccessToken ELSE Null),
                 data |-> Null, response |-> Null, failed |-> FALSE, result |-> NoResult]
     /\ pc' = IF cached \/ ~env.redditCredentials THEN "redditComments" ELSE "redditToken"

\* lines 1176-1208: the twitter entry is recorded and the Reddit fetch begins
Recorded(rec) ==
  IF IsException(rec)
  THEN /\ Respond(ServerError)
       /\ UNCHANGED <<frame, sources, call>>
  ELSE /\ frame' = rec.frame
       /\ sources' = << <<"twitter", rec.entry>> >>
       /\ CallFetchRedditData(rec.frame.cleanUsername)
       /\ UNCHANGED response
RecordTwitter(f) == Recorded(TwitterRecord(f))

AllFrame(body) ==
  [handler |-> "analyzeAll", body |-> body,
   cleanUsername |-> CleanUsername(body.username), tweets |-> <<>>,
   twitterUser |-> Null, primaryUser |-> Null, stages |-> <<>>]

\* POST /api/analyze-all arrives: lines 1103-1129
ReceiveAnalyzeAll ==
  /\ pc = "idle"
  /\ \E body \in AnalyzeAllBodies :
       IF NoUsername(body)
       THEN /\ Respond(BadRequest)
            /\ frame' = [handler |-> "analyzeAll", body |-> body]
            /\ UNCHANGED call
       ELSE /\ frame' = AllFrame(body)
            /\ call' = StartNitter(CleanUsername(body.username))
            /\ pc' = "nitter"
            /\ UNCHANGED response
  /\ UNCHANGED <<globals, sources, result, fnVars>>

\* the status line of an answer, or how the request failed
Answer(o) == IF o.kind = "response" THEN [kind |-> o.kind, statusCode |-> o.statusCode]
             ELSE o

\* a mirror answers the GET of fetchUrl
MirrorResponse ==
  /\ pc = "nitter"
  /\ \E o \in FetchUrlOutcomes :
       /\ (IsRedirect(o) /\ o.location) => call.hops < MaxRedirects
       /\ call' = [AfterMirror(call, o) EXCEPT
                     !.last = [outcome |-> Answer(o), instance |-> call.i,
                               hops |-> call.hops]]
  /\ pc' = IF call'.returned THEN "nitterReturned" ELSE "nitter"
  /\ UNCHANGED <<globals, frame, sources, result, response, fnVars>>

\* lines 1131-1147: the handler resumes with nitterResult
ResumeAllAfterNitter ==
  /\ pc = "nitterReturned" /\ frame.handler = "analyzeAll"
  /\ LET nitterResult == call.result
         tweets == nitterResult.tweets
         f == [frame EXCEPT !.stages = Append(@, Stage("mirrors", tweets))]
     IN IF Len(tweets) > 0
        THEN /\ RecordTwitter([f EXCEPT !.tweets = tweets,
                                 !.twitterUser = NitterUser(f.cleanUsername,
                                                            f.cleanUsername, tweets)])
             /\ UNCHANGED <<twitterClient>>
        ELSE /\ frame' = f
             /\ call' = [fn |-> "initTwitterClient"]
             /\ pc' = IF ClientCached(twitterClient) THEN "twitterSearch" ELSE "twitterLogin"
             /\ UNCHANGED <<twitterClient, sources, response>>
  /\ UNCHANGED <<tokenCache, env, now, startup, result, fnVars>>

\* appLogin() answers: lines 138-144, then 1148
AllLoginResponse ==
  /\ pc = "twitterLogin" /\ frame.handler = "analyzeAll"
  /\ \E login \in LoginOutcomes :
       LET r == AfterLogin(twitterClient, login)
       IN /\ twitterClient' = r[2]
          /\ IF r[1] # Null
             THEN /\ pc' = "twitterSearch"
                  /\ UNCHANGED <<frame, call, sources, response>>
             ELSE RecordTwitter([frame EXCEPT !.stages = Append(@, Stage("searchApi", <<>>))])
  /\ UNCHANGED <<tokenCache, env, now, startup, result, fnVars>>

\* client.v2.search answers: lines 1149-1174
AllSearchResponse ==
  /\ pc = "twitterSearch" /\ frame.handler = "analyzeAll"
  /\ \E o \in SearchOutcomes :
       LET got == o.kind = "result" /\ Len(o.data) > 0
           tweets == IF got THEN o.data ELSE <<>>
       IN RecordTwitter([frame EXCEPT
            !.tweets = tweets,
            !.twitterUser = IF got THEN SearchUser(o, frame.cleanUsername, frame.cleanUsername)
                            ELSE Null,
            !.stages = Append(@, Stage("searchApi", tweets))])
  /\ UNCHANGED <<globals, result, fnVars>>

\* the token endpoint answers: lines 180-190, then 196-207
TokenResponse ==
  /\ pc = "redditToken"
  /\ \E o \in TokenOutcomes :
       IF TokenGranted(o)
       THEN /\ redditAccessToken' = o.data.access_token
            /\ redditTokenExpiry' = ExpiryOf(now, o.data)
            /\ call' = [call EXCEPT !.token = o.data.access_token, !.data = o.data,
                                    !.headers = RedditHeaders(o.data.access_token)]
       ELSE /\ UNCHANGED tokenCache
            /\ call' = [call EXCEPT !.token = Null,
                                    !.headers = RedditHeaders(Null),
                                    !.data = IF o.kind = "response" /\ o.valid THEN o.data
                                             ELSE Null]
  /\ pc' = "redditComments"
  /\ UNCHANGED <<twitterClient, env, now, startup, frame, sources, result, response, fnVars>>

\* response.ok of an answer of fetch, or how the request failed
Status(o) == IF o.kind = "response" THEN [kind |-> o.kind, ok |-> o.ok] ELSE o

\* the comment listing did not answer with a success status and a listing of
\* comments that have a body
CommentsFailed(o) ==
  \/ o.kind # "response" \/ ~o.ok \/ ~o.valid
  \/ "data" \in DOMAIN o.json /\
       \E i \in 1..Len(o.json.data.children) :
         LET child == o.json.data.children[i]
         IN "data" \notin DOMAIN child \/ "body" \notin DOMAIN child.data

\* the comment listing answers: lines 209-226
CommentsResponse ==
  /\ pc = "redditComments"
  /\ \E o \in CommentsOutcomes :
       call' = [call EXCEPT !.response = Status(o), !.failed = CommentsFailed(o),
                            !.result = fetchRedditData(o)]
  /\ pc' = "redditReturned"
  /\ UNCHANGED <<globals, frame, sources, result, response, fnVars>>

\* lines 1209-1223: the reddit entry is recorded and the news fetch begins
ResumeAfterReddit ==
  /\ pc = "redditReturned"
  /\ LET redditData == call.result
         entry == RedditEntry(redditData)
     IN IF IsException(entry)
        THEN /\ Respond(ServerError)
             /\ UNCHANGED <<sources, call>>
        ELSE /\ sources' = Append(sources, <<"reddit", entry>>)
             /\ call' = [fn |-> "fetchNewsData", username |-> frame.cleanUsername,
                         response |-> Null, failed |-> FALSE, result |-> NoResult]
             /\ pc' = "news"
             /\ UNCHANGED response
  /\ UNCHANGED <<globals, frame, result, fnVars>>

\* the search page did not answer with a readable success response
NewsFailed(o) == o.kind # "response" \/ ~o.ok \/ ~o.readable

\* the search page answers: lines 276-313
NewsResponse ==
  /\ pc = "news"
  /\ \E o \in NewsOutcomes :
       call' = [call EXCEPT !.response = Status(o), !.failed = NewsFailed(o),
                            !.result = fetchNewsData(o)]
  /\ pc' = "newsReturned"
  /\ UNCHANGED <<globals, frame, sources, result, response, fnVars>>

\* lines 1224-1238: the news entry is recorded and the GitHub fetch begins
ResumeAfterNews ==
  /\ pc = "newsReturned"
  /\ LET newsData == call.result
         entry == NewsEntry(newsData)
     IN IF IsException(entry)
        THEN /\ Respond(ServerError)
             /\ UNCHANGED <<sources, call>>
        ELSE /\ sources' = Append(sources, <<"news", entry>>)
             /\ call' = [fn |-> "fetchGitHubData", username |-> frame.cleanUsername,
                         user |-> Null, userResponse |-> Null, eventsResponse |-> Null,
                         profileFailed |-> FALSE, eventsFailed |-> FALSE,
                         result |-> NoResult]
             /\ pc' = "githubProfile"
             /\ UNCHANGED response
  /\ UNCHANGED <<globals, frame, result, fnVars>>

\* the profile request did not answer with a success status and a profile
ProfileFailed(o) == o.kind # "response" \/ ~o.ok \/ ~o.valid \/ o.json = Null
\* the events request did not answer with a success status and an array of events
EventsFailed(o) == o.kind # "response" \/ ~o.ok \/ ~o.valid \/ ~o.json.isArray

\* the profile request answers: lines 378-391, or the catch
ProfileResponse ==
  /\ pc = "githubProfile"
  /\ \E o \in ProfileOutcomes :
       LET r == GitHubProfileTry(o)
       IN IF "continue" \in DOMAIN r
          THEN /\ call' = [call EXCEPT !.user = r.user, !.userResponse = o,
                                       !.profileFailed = ProfileFailed(o)]
               /\ pc' = "githubEvents"
          ELSE /\ call' = [call EXCEPT !.userResponse = o,
                                       !.profileFailed = ProfileFailed(o),
                                       !.result = Catch(r, NotFoundGitHub)]
               /\ pc' = "githubReturned"
  /\ UNCHANGED <<globals, frame, sources, result, response, fnVars>>

\* the events request answers: lines 393-400
EventsResponse ==
  /\ pc = "githubEvents"
  /\ \E o \in EventsOutcomes :
       call' = [call EXCEPT !.eventsResponse = o, !.eventsFailed = EventsFailed(o),
                            !.result = Catch(GitHubEventsTry(call.user, o), NotFoundGitHub)]
  /\ pc' = "githubReturned"
  /\ UNCHANGED <<globals, frame, sources, result, response, fnVars>>

\* lines 1239-1291: the github entry, the aggregate, the profile and the response
ResumeAfterGitHub ==
  /\ pc = "githubReturned"
  /\ LET githubData == call.result
         entry == GitHubEntry(githubData)
         all   == Append(sources, <<"github", entry>>)
         r     == calculateWeightedScore(all)
         user  == PrimaryUser(frame.primaryUser, frame.cleanUsername, entry, githubData)
     IN IF IsException(entry)
        THEN /\ Respond(ServerError)
             /\ UNCHANGED <<sources, result, frame>>
        ELSE /\ sources' = all
             /\ result' = r
             /\ frame' = [frame EXCEPT !.primaryUser = user]
             /\ Respond(MultiSourceResponse(user, r))
  /\ UNCHANGED <<globals, call, fnVars>>

\* the response has been sent: the request's locals are gone
Done ==
  /\ pc = "responded"
  /\ pc' = "idle"
  /\ frame' = NoFrame
  /\ call' = NoCall
  /\ response' = NoResponse
  /\ sources' = <<>>
  /\ result' = NoResult
  /\ UNCHANGED <<globals, fnVars>>

(***************************************************************************)
(* /api/analyze.                                                           *)
(***************************************************************************)
UserLookupOutcomes ==
  { [kind |-> "error"],
    [kind |-> "result", found |-> FALSE],
    [kind |-> "result", found |-> TRUE,
     data |-> [username |-> "elonmusk", name |-> "Elon Musk",
               profile_image_url |-> "p_normal.png", description |-> "",
               followers_count |-> 7, following_count |-> 0, tweet_count |-> 9]] }

\* lines 967-975
LookupUser(o, cleanUsername, cachedData) ==
  [username |-> TextOr(o.data.username, cleanUsername),
   name |-> o.data.name,
   profileImage |-> replace(o.data.profile_image_url, "_normal", "_400x400"),
   description |-> TextOr(o.data.description, cachedData.user.description),
   followers |-> CountOr(o.data.followers_count, cachedData.user.followers),
   following |-> CountOr(o.data.following_count, cachedData.user.following),
   tweets |-> CountOr(o.data.tweet_count, cachedData.user.tweets)]

AnalyzeFrame(body) ==
  [handler |-> "analyze", body |-> body, cleanUsername |-> CleanUsername(body.username),
   user |-> Null, tweets |-> <<>>, useDemo |-> body.demo = TRUE, dataSource |-> "demo", stages |-> <<>>]

\* res.json({ user, analysis, isDemo: useDemo, dataSource })
AnalyzeResponse(user, analysis, useDemo, dataSource) ==
  [status |-> 200,
   body |-> [user |-> user, analysis |-> analysis, isDemo |-> useDemo,
             dataSource |-> dataSource]]

\* lines 1081-1096: the analysis and the response, or the 500 of the catch
Analyzed(user, analysis, useDemo, dataSource) ==
  IF IsException(analysis) THEN ServerError
  ELSE AnalyzeResponse(user, analysis, useDemo, dataSource)

Finish(f, useDemo, user, tweets) ==
  /\ frame' = [f EXCEPT !.useDemo = useDemo, !.user = user, !.tweets = tweets,
                        !.stages = IF useDemo THEN Append(@, Stage("demo", tweets)) ELSE @]
  /\ Respond(Analyzed(user, TweetAnalysis[tweets], useDemo, f.dataSource))

\* lines 1053-1078: if (useDemo || !user || tweets.length === 0)
DemoFallback(f, useDemo) ==
  Finish(f, useDemo, IF useDemo THEN DemoUser(f.cleanUsername) ELSE f.user,
         IF useDemo THEN DemoTweets(f.cleanUsername) ELSE f.tweets)

\* lines 1053-1096: the demo fallback, the analysis and the response
FinishAnalyze(f) == DemoFallback(f, f.useDemo \/ f.user = Null \/ Len(f.tweets) = 0)

\* { username: cleanUsername, ...cachedData.user } when the lookup gave no user
CachedFinish(f) ==
  FinishAnalyze([f EXCEPT !.user = CachedUser(f.cleanUsername, CachedData(f.cleanUsername))])

\* POST /api/analyze arrives: lines 932-961 or 998
ReceiveAnalyze ==
  /\ pc = "idle"
  /\ \E body \in AnalyzeBodies :
       IF NoUsername(body)
       THEN /\ Respond(BadRequest)
            /\ frame' = [handler |-> "analyze", body |-> body]
            /\ UNCHANGED call
       ELSE LET f == AnalyzeFrame(body)
                cachedData == CachedData(f.cleanUsername)
            IN IF f.useDemo THEN FinishAnalyze(f) /\ UNCHANGED call
               ELSE IF cachedData # Null
               THEN /\ frame' = [f EXCEPT !.tweets = cachedData.tweets,
                                         !.dataSource = "cached-real-data",
                                         !.stages = <<Stage("cache", cachedData.tweets)>>]
                    /\ call' = [fn |-> "initTwitterClient"]
                    /\ pc' = IF ClientCached(twitterClient) THEN "userLookup"
                             ELSE "cachedLogin"
                    /\ UNCHANGED response
               ELSE /\ frame' = [f EXCEPT !.stages = <<Stage("cache", <<>>)>>]
                    /\ call' = StartNitter(f.cleanUsername)
                    /\ pc' = "nitter"
                    /\ UNCHANGED response
  /\ UNCHANGED <<globals, sources, result, fnVars>>

\* appLogin() answers in the cached branch: lines 138-144, then 962
CachedLoginResponse ==
  /\ pc = "cachedLogin"
  /\ \E login \in LoginOutcomes :
       LET r == AfterLogin(twitterClient, login)
       IN /\ twitterClient' = r[2]
          /\ IF r[1] # Null
             THEN /\ pc' = "userLookup"
                  /\ UNCHANGED <<frame, call, response>>
             ELSE CachedFinish(frame) /\ UNCHANGED call
  /\ UNCHANGED <<tokenCache, env, now, startup, sources, result, fnVars>>

\* lines 966-986: the user of the lookup, or of the cache when it gave none
LookedUp(o, cleanUsername, cachedData) ==
  IF o.kind = "result" /\ o.found THEN LookupUser(o, cleanUsername, cachedData)
  ELSE CachedUser(cleanUsername, cachedData)

\* client.v2.userByUsername answers: lines 966-994
UserLookupResponse ==
  /\ pc = "userLookup"
  /\ \E o \in UserLookupOutcomes :
       FinishAnalyze([frame EXCEPT
         !.user = LookedUp(o, frame.cleanUsername, CachedData(frame.cleanUsername))])
  /\ UNCHANGED <<globals, call, sources, result, fnVars>>

\* lines 1000-1019: the handler resumes with nitterResult
ResumeAnalyzeAfterNitter ==
  /\ pc = "nitterReturned" /\ frame.handler = "analyze"
  /\ LET nitterResult == call.result
         tweets == nitterResult.tweets
         f == [frame EXCEPT !.stages = Append(@, Stage("mirrors", tweets))]
     IN IF Len(tweets) > 0
        THEN /\ FinishAnalyze([f EXCEPT
                  !.tweets = tweets,
                  !.dataSource = "nitter (" \o nitterResult.instance \o ")",
                  !.user = NitterUser(f.cleanUsername, Capitalize(f.cleanUsername), tweets)])
             /\ UNCHANGED call
        ELSE /\ frame' = f
             /\ call' = [fn |-> "initTwitterClient"]
             /\ pc' = IF ClientCached(twitterClient) THEN "twitterSearch" ELSE "twitterLogin"
             /\ UNCHANGED response
  /\ UNCHANGED <<globals, sources, result, fnVars>>

\* appLogin() answers: lines 138-144, then 1020
AnalyzeLoginResponse ==
  /\ pc = "twitterLogin" /\ frame.handler = "analyze"
  /\ \E login \in LoginOutcomes :
       LET r == AfterLogin(twitterClient, login)
       IN /\ twitterClient' = r[2]
          /\ IF r[1] # Null
             THEN /\ pc' = "twitterSearch"
                  /\ UNCHANGED <<frame, call, response>>
             ELSE /\ FinishAnalyze([frame EXCEPT
                                      !.stages = Append(@, Stage("searchApi", <<>>))])
                  /\ UNCHANGED call
  /\ UNCHANGED <<tokenCache, env, now, startup, sources, result, fnVars>>

\* client.v2.search answers: lines 1028-1048
AnalyzeSearchResponse ==
  /\ pc = "twitterSearch" /\ frame.handler = "analyze"
  /\ \E o \in SearchOutcomes :
       LET got == o.kind = "result" /\ Len(o.data) > 0
       IN FinishAnalyze(
            IF got
            THEN [frame EXCEPT !.tweets = o.data, !.dataSource = "twitter-api",
                               !.user = SearchUser(o, frame.cleanUsername, frame.cleanUsername),
                               !.stages = Append(@, Stage("searchApi", o.data))]
            ELSE [frame EXCEPT !.stages = Append(@, Stage("searchApi", <<>>))])
  /\ UNCHANGED <<globals, call, sources, result, fnVars>>

Next ==
  \/ Tick
  \/ StartupLogin
  \/ ReceiveAnalyze
  \/ CachedLoginResponse
  \/ UserLookupResponse
  \/ ResumeAnalyzeAfterNitter
  \/ AnalyzeLoginResponse
  \/ AnalyzeSearchResponse
  \/ ReceiveAnalyzeAll
  \/ MirrorResponse
  \/ ResumeAllAfterNitter
  \/ AllLoginResponse
  \/ AllSearchResponse
  \/ TokenResponse
  \/ CommentsResponse
  \/ ResumeAfterReddit
  \/ NewsResponse
  \/ ResumeAfterNews
  \/ ProfileResponse
  \/ EventsResponse
  \/ ResumeAfterGitHub
  \/ Done

Spec == Init /\ [][Next]_vars

(***************************************************************************)
(* getRedditToken under concurrent requests.  Each call runs from its      *)
(* entry to its first await (the fetch of line 170), from there to its     *)
(* second await (response.json() of line 180) and from there to its        *)
(* return; between these points other calls run.  Here call maps every     *)
(* call to its position and locals, and fnInput is the list of grants the  *)
(* token endpoint has sent.                                                *)
(***************************************************************************)
MaxTokenCalls == 2

TokenCalls == 1..MaxTokenCalls
\* expires_in of a grant, in seconds
TokenLifetimes == {30, 120}

NotCalled == [at |-> "notCalled"]
Returned(value, data, t) == [at |-> "returned", value |-> value, data |-> data, writtenAt |-> t]

\* the n-th grant of the token endpoint
Grant(n, lifetime) ==
  [kind |-> "response", valid |-> TRUE,
   data |-> [access_token |-> [bearer |-> n], expires_in |-> lifetime]]

\* what the token request of one call can end in
ConcurrentTokenOutcomes(grants) ==
  { NetError,
    [kind |-> "response", valid |-> FALSE],
    [kind |-> "response", valid |-> TRUE, data |-> [error |-> "invalid_grant"]] }
  \cup {Grant(Len(grants) + 1, l) : l \in TokenLifetimes}

\* a write of the token alone, the expiry left as it was
WriteTokenOnly(cache, data, t) == <<data.access_token, cache[2]>>
\* lines 182-183: the token and its expiry, written with no await between them
WriteToken(cache, data, t) == <<data.access_token, ExpiryOf(t, data)>>

InitToken ==
  /\ twitterClient = Null
  /\ redditAccessToken = Null
  /\ redditTokenExpiry = 0
  /\ env \in Envs
  /\ now = 0
  /\ startup = "pending"
  /\ pc = "idle"
  /\ frame = NoFrame
  /\ call = [p \in TokenCalls |-> NotCalled]
  /\ response = NoResponse
  /\ sources = <<>>
  /\ result = NoResult
  /\ fnName = "getRedditToken" /\ fnInput = <<>> /\ fnOutput = NoResult

\* lines 156-170: the cache test, the credentials test and the token request
EnterGetRedditToken(p) ==
  /\ call[p] = NotCalled
  /\ call' = [call EXCEPT ![p] =
       IF TokenCached(redditAccessToken, redditTokenExpiry, now)
       THEN Returned(redditAccessToken, Null, now)
       ELSE IF ~env.redditCredentials THEN Returned(Null, Null, now)
       ELSE [at |-> "fetch"]]
  /\ UNCHANGED <<globals, pc, frame, sources, result, response, fnVars>>

\* the fetch of line 170 settles: a response to parse, or the catch of line 187
TokenFetchSettles(p) ==
  /\ call[p].at = "fetch"
  /\ \E o \in ConcurrentTokenOutcomes(fnInput) :
       /\ call' = [call EXCEPT ![p] =
            IF o.kind = "response" THEN [at |-> "json", response |-> o]
            ELSE Returned(Null, Null, now)]
       /\ fnInput' = IF TokenGranted(o) THEN Append(fnInput, o.data) ELSE fnInput
  /\ UNCHANGED <<globals, pc, frame, sources, result, response, fnName, fnOutput>>

\* response.json() of line 180 settles: lines 181-190
TokenJsonSettles(p) ==
  /\ call[p].at = "json"
  /\ LET o == call[p].response
         written == WriteToken(<<redditAccessToken, redditTokenExpiry>>, o.data, now)
     IN IF TokenGranted(o)
        THEN /\ redditAccessToken' = written[1]
             /\ redditTokenExpiry' = written[2]
             /\ call' = [call EXCEPT ![p] = Returned(written[1], o.data, now)]
        ELSE /\ call' = [call EXCEPT ![p] =
                  Returned(Null, IF o.valid THEN o.data ELSE Null, now)]
             /\ UNCHANGED <<redditAccessToken, redditTokenExpiry>>
  /\ UNCHANGED <<twitterClient, env, now, startup, pc, frame, sources, result, response,
                 fnVars>>

NextToken ==
  \/ Tick
  \/ \E p \in TokenCalls : EnterGetRedditToken(p)
  \/ \E p \in TokenCalls : TokenFetchSettles(p)
  \/ \E p \in TokenCalls : TokenJsonSettles(p)

SpecToken == InitToken /\ [][NextToken]_vars

(***************************************************************************)
(* analyzeTweets called again on the list it was given before, with calls  *)
(* of the analyzers on other inputs between the two.  Here fnInput is the  *)
(* caller's list, fnOutput the list of what every call on it saw and       *)
(* returned, sources the calls made in between and result the counters     *)
(* the latest analyzeTweets call ended with.                               *)
(***************************************************************************)
MaxRepeats == 2

\* what a request or another caller runs between the two calls
CallsBetween ==
  { <<"analyzeTweets", << [text |-> "I love this"], [text |-> "you are stupid"] >> >>,
    <<"analyzeRedditComments",
      << [text |-> "I love this", score |-> 15, subreddit |-> "pics"] >> >>,
    <<"analyzeGitHubData",
      [user |-> Null, events |-> [isArray |-> TRUE, items |-> <<>>], found |-> FALSE]>> }

\* the tweets of the caller's list: a nice one, a naughty one in capitals, one
\* without keywords and one without a text
RepeatedItems ==
  { [text |-> "I love this"], [text |-> "I DONT CARE, total FAILURE"],
    [text |-> "Just had coffee this morning. Weather is okay I guess."], NoTextItem }

InitTwice ==
  /\ fnName = "analyzeTweets"
  /\ fnInput \in SeqsUpTo(RepeatedItems, MaxItems)
  /\ fnOutput = <<>>
  /\ sources = <<>>
  /\ result = ZeroCounters
  /\ ServerIdle

\* the counters a call of analyzeTweets ends with
CountersAfter(tweets, left) == TweetLoop(tweets, 1, EntryCounters(left))
LeftBy(acc, left) == IF IsException(acc) THEN left ELSE acc

\* analyzeTweets(tweets) on the caller's list
CallAnalyzeTweetsAgain ==
  /\ Len(fnOutput) < MaxRepeats
  /\ Len(sources) >= Len(fnOutput) - 1
  /\ fnOutput' = Append(fnOutput,
       [input |-> fnInput, output |-> TweetReturn(fnInput, CountersAfter(fnInput, result))])
  /\ result' = LeftBy(CountersAfter(fnInput, result), result)
  /\ UNCHANGED <<fnName, fnInput, sources, globals, pc, frame, call, response>>

RunBetween(c, left) ==
  IF c[1] = "analyzeTweets" THEN TweetReturn(c[2], CountersAfter(c[2], left))
  ELSE IF c[1] = "analyzeRedditComments" THEN analyzeRedditComments(c[2])
  ELSE IF c[1] = "analyzeNewsSnippets" THEN analyzeNewsSnippets(c[2])
  ELSE analyzeGitHubData(c[2])

\* another call runs between two calls on the caller's list
CallBetween ==
  /\ Len(fnOutput) >= 1 /\ Len(fnOutput) < MaxRepeats
  /\ Len(sources) < Len(fnOutput)
  /\ \E c \in CallsBetween :
       /\ sources' = Append(sources, <<c[1], RunBetween(c, result)>>)
       /\ result' = IF c[1] = "analyzeTweets"
                    THEN LeftBy(CountersAfter(c[2], result), result)
                    ELSE result
  /\ UNCHANGED <<fnVars, globals, pc, frame, call, response>>

NextTwice ==
  \/ CallAnalyzeTweetsAgain
  \/ CallBetween

SpecTwice == InitTwice /\ [][NextTwice]_vars

\* calculateWeightedScore on any mapping: scores outside 0..100 and results that
\* carry a weight field of their own
AnyEntries ==
  {Absent, [found |-> FALSE],
   [score |-> 30, verdict |-> "NAUGHTY"],
   [found |-> TRUE, score |-> 50, verdict |-> "NICE"],
   [found |-> TRUE, score |-> 150, verdict |-> "NICE"],
   [found |-> TRUE, score |-> -20, verdict |-> "NAUGHTY"],
   [found |-> TRUE, score |-> 82, verdict |-> "NICE", weight |-> "99%"]}
AnyInputs == {EntriesFrom(c, 1) : c \in [1..Len(SourceNames) -> AnyEntries]}

InitAggAny ==
  /\ sources \in AnyInputs
  /\ result = NoResult
  /\ fnName = "calculateWeightedScore" /\ fnInput = <<>> /\ fnOutput = NoResult
  /\ ServerIdle

SpecAggAny == InitAggAny /\ [][NextAgg]_vars

(***************************************************************************)
(* Concurrent calls of initTwitterClient.  Call 0 is the call made when    *)
(* the module is loaded, which is waiting for appLogin() once the module   *)
(* has been loaded; the others are those of requests.  Every appLogin()    *)
(* that succeeds resolves with a client object of its own.  fnInput is the *)
(* list of the clients the logins have given so far.                       *)
(***************************************************************************)
MaxClientCalls == 3
ClientCalls == 0..MaxClientCalls

\* the client of the n-th login that succeeds
ClientOf(n) == [bearer |-> "app-only", login |-> n]
ConcurrentLoginOutcomes(given) ==
  {[ok |-> TRUE, client |-> ClientOf(Len(given) + 1)], [ok |-> FALSE]}

\* a call that has returned: its value, the cached client it found when it began
\* and whether it called appLogin()
ClientReturned(value, found, login) ==
  [at |-> "returned", value |-> value, found |-> found, login |-> login]

InitClient ==
  /\ twitterClient = Null
  /\ redditAccessToken = Null
  /\ redditTokenExpiry = 0
  /\ env \in Envs
  /\ now = 0
  /\ startup = "pending"
  /\ pc = "idle"
  /\ frame = NoFrame
  /\ call = [p \in ClientCalls |-> IF p = 0 THEN [at |-> "login"] ELSE NotCalled]
  /\ response = NoResponse
  /\ sources = <<>>
  /\ result = NoResult
  /\ fnName = "initTwitterClient" /\ fnInput = <<>> /\ fnOutput = NoResult

\* line 131 and lines 133-138 up to the await
EnterInitTwitterClient(p) ==
  /\ call[p] = NotCalled
  /\ call' = [call EXCEPT ![p] =
       IF ClientCached(twitterClient) THEN ClientReturned(twitterClient, twitterClient, FALSE)
       ELSE [at |-> "login"]]
  /\ UNCHANGED <<globals, pc, frame, sources, result, response, fnVars>>

\* appLogin() settles: lines 138-144
LoginSettles(p) ==
  /\ call[p].at = "login"
  /\ \E login \in ConcurrentLoginOutcomes(fnInput) :
       LET r == AfterLogin(twitterClient, login)
       IN /\ twitterClient' = r[2]
          /\ call' = [call EXCEPT ![p] = ClientReturned(r[1], Null, TRUE)]
          /\ fnInput' = IF login.ok THEN Append(fnInput, login.client) ELSE fnInput
  /\ startup' = IF p = 0 THEN "done" ELSE startup
  /\ UNCHANGED <<tokenCache, env, now, pc, frame, sources, result, response, fnName,
                 fnOutput>>

NextClient ==
  \/ \E p \in ClientCalls : EnterInitTwitterClient(p)
  \/ \E p \in ClientCalls : LoginSettles(p)

SpecClient == InitClient /\ [][NextClient]_vars

(***************************************************************************)
(* /api/analyze-all with the exchanges that complete.  fetchUrl keeps no   *)
(* count of the redirects it follows; the hops of the mirror request are   *)
(* counted here up to MaxRedirects, which stands for that many or more.    *)
(***************************************************************************)
HopsUpTo(c, n) == [c EXCEPT !.hops = IF @ > n THEN n ELSE @]

\* the answers of a mirror, a 302 that names a location among them
AnswersOfMirror ==
  FetchUrlOutcomes \cup {[kind |-> "response", statusCode |-> 302, location |-> TRUE]}

\* a mirror answers the GET of fetchUrl, after however many redirects
MirrorAnswers ==
  /\ pc = "nitter"
  /\ \E o \in AnswersOfMirror :
       call' = [HopsUpTo(AfterMirror(call, o), MaxRedirects) EXCEPT
                  !.last = [outcome |-> Answer(o), instance |-> call.i,
                            hops |-> call.hops]]
  /\ pc' = IF call'.returned THEN "nitterReturned" ELSE "nitter"
  /\ UNCHANGED <<globals, frame, sources, result, response, fnVars>>

\* an exchange with a source completes
ExchangeCompletes ==
  \/ MirrorAnswers
  \/ ResumeAllAfterNitter
  \/ AllLoginResponse
  \/ AllSearchResponse
  \/ TokenResponse
  \/ CommentsResponse
  \/ NewsResponse
  \/ ProfileResponse
  \/ EventsResponse

\* the handler goes on after the await of a fetcher that has returned: it starts
\* the next fetcher or sends the response
HandlerResumes ==
  /\ pc \in {"redditReturned", "newsReturned", "githubReturned"}
  /\ pc' \in {"news", "githubProfile", "responded"}

NextLive ==
  \/ Tick
  \/ StartupLogin
  \/ ReceiveAnalyzeAll
  \/ ExchangeCompletes
  \/ ResumeAfterReddit
  \/ ResumeAfterNews
  \/ ResumeAfterGitHub
  \/ Done

\* every exchange that is under way completes, and a handler whose await has
\* settled is resumed
SpecLive ==
  Init /\ [][NextLive]_vars /\ WF_vars(ExchangeCompletes) /\ WF_pc(HandlerResumes)

(***************************************************************************)
(* The Twitter MCP server (twitter-mcp/src/index.ts), TwitterServer.start. *)
(* transports is the Map of the active transports by session id, kept in   *)
(* result.  call is the state of each SSE connection, frame the POST that  *)
(* express.json() is parsing, fnOutput the transport the last POST was     *)
(* handed to.  The n-th connection gets a session id of its own.           *)
(***************************************************************************)
MaxSessions == 3
Connections == 1..MaxSessions

transports == result

\* transport.sessionId of the transport made for connection n
SessionIdOf(n) == "session-" \o ToString(n)
\* new SSEServerTransport('/messages', res)
SSEServerTransport(n) == [sessionId |-> SessionIdOf(n), res |-> n]

\* req.query of a POST /messages: no sessionId, an empty one, the id of a
\* connection, an id no transport has
Queries ==
  {[other |-> "1"], [sessionId |-> ""], [sessionId |-> "no-such-session"]}
  \cup {[sessionId |-> SessionIdOf(n)] : n \in Connections}

\* transports.set(transport.sessionId, transport)
MapSet(map, key, value) == [k \in DOMAIN map \cup {key} |-> IF k = key THEN value ELSE map[k]]
\* a close handler that leaves the entry in the map
MapKeep(map, key) == map
\* transports.delete(transport.sessionId)
MapDelete(map, key) == [k \in DOMAIN map \ {key} |-> map[k]]

\* !sessionId
NoSessionId(query) == "sessionId" \notin DOMAIN query \/ query.sessionId = ""

InitSessions ==
  /\ twitterClient = Null
  /\ redditAccessToken = Null
  /\ redditTokenExpiry = 0
  /\ env \in Envs
  /\ now = 0
  /\ startup = "done"
  /\ pc = "idle"
  /\ frame = NoFrame
  /\ call = [n \in Connections |-> "unopened"]
  /\ response = NoResponse
  /\ sources = <<>>
  /\ result = [k \in {} |-> Null]
  /\ fnName = "TwitterServer.start" /\ fnInput = <<>> /\ fnOutput = Null

\* GET /sse: lines 217-231
SseConnect(n) ==
  /\ call[n] = "unopened"
  /\ call' = [call EXCEPT ![n] = "open"]
  /\ result' = MapSet(transports, SSEServerTransport(n).sessionId, SSEServerTransport(n))
  /\ UNCHANGED <<globals, pc, frame, sources, response, fnVars>>

\* the connection closes: lines 227-230
SseClose(n) ==
  /\ call[n] = "open"
  /\ call' = [call EXCEPT ![n] = "closed"]
  /\ result' = MapDelete(transports, SSEServerTransport(n).sessionId)
  /\ UNCHANGED <<globals, pc, frame, sources, response, fnVars>>

\* POST /messages arrives and express.json() reads its body: line 236
ReceivePost ==
  /\ pc = "idle"
  /\ \E query \in Queries : frame' = [handler |-> "messages", query |-> query]
  /\ pc' = "parsing"
  /\ response' = NoResponse
  /\ fnOutput' = Null
  /\ UNCHANGED <<globals, call, sources, result, fnName, fnInput>>

\* the handler of POST /messages: lines 237-251
HandlePost ==
  /\ pc = "parsing"
  /\ LET sessionId == IF "sessionId" \in DOMAIN frame.query THEN frame.query.sessionId
                      ELSE ""
     IN IF NoSessionId(frame.query)
        THEN /\ response' = [status |-> 400,
                             body |-> [error |-> "Missing sessionId query parameter"]]
             /\ UNCHANGED fnOutput
        ELSE IF sessionId \in DOMAIN transports
        THEN /\ fnOutput' = transports[sessionId]
             /\ response' = [status |-> 0, handledBy |-> transports[sessionId].res]
        ELSE /\ response' = [status |-> 404,
                             body |-> [error |-> "Session not found",
                                       sessionId |-> sessionId]]
             /\ UNCHANGED fnOutput
  /\ pc' = "idle"
  /\ UNCHANGED <<globals, frame, call, sources, result, fnName, fnInput>>

NextSessions ==
  \/ \E n \in Connections : SseConnect(n)
  \/ \E n \in Connections : SseClose(n)
  \/ ReceivePost
  \/ HandlePost

SpecSessions == InitSessions /\ [][NextSessions]_vars

(***************************************************************************)
(* CLAIMS                                                                  *)
(***************************************************************************)
\* the entries calculateWeightedScore is to include: found is not false and the
\* score is defined
IncludedIdx(srcs) ==
  {i \in 1..Len(srcs) :
     /\ srcs[i][2] # Null
     /\ ~("found" \in DOMAIN srcs[i][2] /\ srcs[i][2].found = FALSE)
     /\ "score" \in DOMAIN srcs[i][2]}

RECURSIVE SumOver(_, _)
SumOver(f, S) == IF S = {} THEN 0
                 ELSE LET x == CHOOSE y \in S : TRUE IN f[x] + SumOver(f, S \ {x})

\* weights in hundredths: 30, 30, 30, 10
Hundredths(source) == (WeightLiterals[source][1] * 100) \div WeightLiterals[source][2]
ExactNumerator(srcs, S)   == SumOver([i \in S |-> srcs[i][2].score * Hundredths(srcs[i][1])], S)
ExactDenominator(srcs, S) == SumOver([i \in S |-> Hundredths(srcs[i][1])], S)

\* n = round(num / den), halves rounded up:  n - 1/2 <= num/den < n + 1/2
IsRounded(n, num, den) == 2 * den * n - den <= 2 * num /\ 2 * num < 2 * den * n + den

\* n is the rounded weighted mean of the entries S of srcs, and 50 when S is empty
IsRoundedMean(n, srcs, S) ==
  IF S = {} THEN n = 50
  ELSE IsRounded(n, ExactNumerator(srcs, S), ExactDenominator(srcs, S))

\* C1: calculateWeightedScore returns finalScore = round(sum of score * weight /
\* sum of weight) over the entries whose found is not false and whose score is
\* defined, with the weights 0.30, 0.30, 0.30, 0.10, and 50 when there is none.
C1_FinalScoreIsRoundedWeightedMean ==
  result # NoResult => IsRoundedMean(result.finalScore, sources, IncludedIdx(sources))

MarkNotFound(srcs, i) == [srcs EXCEPT ![i] = <<srcs[i][1], [found |-> FALSE]>>]
RemoveEntry(srcs, i)  == SubSeq(srcs, 1, i - 1) \o SubSeq(srcs, i + 1, Len(srcs))

\* C2: marking one found source found: false, or deleting its entry, gives the
\* rounded weighted mean over the remaining found sources, normalised by the sum of
\* their own weights (so the divisor is the weight of the sources present, not the
\* nominal total of the table).
C2_RemovalRenormalises ==
  result # NoResult =>
    \A i \in IncludedIdx(sources) :
      LET rest == IncludedIdx(sources) \ {i}
      IN /\ IsRoundedMean(calculateWeightedScore(MarkNotFound(sources, i)).finalScore,
                          sources, rest)
         /\ IsRoundedMean(calculateWeightedScore(RemoveEntry(sources, i)).finalScore,
                          sources, rest)

\* Marking a source found: false and deleting its entry give the same result, and
\* the divisor accumulated by the loop is the sum of the weights of the included
\* sources (checked on the mappings with at most two included sources).
RedistributionLemma ==
  (result # NoResult /\ Cardinality(IncludedIdx(sources)) <= 2) =>
    /\ MathRound(FMul(WeightedSums(sources, 1, Zero, Zero)[2], FromInt(100)))
         = ExactDenominator(sources, IncludedIdx(sources))
    /\ \A i \in IncludedIdx(sources) :
         calculateWeightedScore(MarkNotFound(sources, i)).finalScore
           = calculateWeightedScore(RemoveEntry(sources, i)).finalScore

\* finalScore is the rounded weighted mean whenever the exact mean is not a half
\* (the only inputs on which the double arithmetic of the loop rounds the other way)
RoundedUnlessTie ==
  result # NoResult =>
    LET S   == IncludedIdx(sources)
        num == ExactNumerator(sources, S)
        den == ExactDenominator(sources, S)
    IN \/ IsRoundedMean(result.finalScore, sources, S)
       \/ /\ den # 0 /\ (2 * num) % den = 0 /\ ((2 * num) \div den) % 2 = 1
          /\ result.finalScore = ((2 * num) \div den - 1) \div 2

\* C3: every result an analyzer returns has an integer score in 0..100 and the
\* verdict NICE when the score is at least 50 and NAUGHTY otherwise.
C3_ScoreBoundedVerdictDerived ==
  (fnOutput # NoResult /\ ~IsException(fnOutput)) =>
    /\ fnOutput.score \in 0..100
    /\ fnOutput.verdict \in {"NICE", "NAUGHTY"}
    /\ (fnOutput.verdict = "NICE") <=> (fnOutput.score >= 50)

\* C3 witness: analyzeRedditComments has returned a score that the clamp cut to 0
C3_Witness ==
  /\ fnName = "analyzeRedditComments"
  /\ fnOutput # NoResult /\ ~IsException(fnOutput)
  /\ 50 + (fnOutput.niceCount - fnOutput.naughtyCount) * 3 < 0
  /\ fnOutput.score = 0 /\ fnOutput.verdict = "NAUGHTY"

\* C3 witness for the developer-activity analyzer: its cap cut a score above 100
C3_GitHubCapped ==
  /\ fnName = "analyzeGitHubData"
  /\ fnOutput # NoResult /\ ~IsException(fnOutput)
  /\ fnOutput.score = 100

\* the fetcher calls of a request that have returned to the handler
NitterReturned == pc = "nitterReturned"
RedditReturned == pc = "redditReturned"
NewsReturned   == pc = "newsReturned"
GitHubReturned == pc = "githubReturned"

\* C4: no fetcher hands an exception to its caller, and whenever a network call it
\* made ended in a network error, a timeout, a non-success status or a malformed
\* payload, the result it resolves with has no items or has found = FALSE.
C4_FetchersDegradeToNotFound ==
  /\ NitterReturned =>
       /\ ~IsException(call.result)
       /\ ~call.good[Len(call.good)] => call.result.tweets = <<>>
  /\ RedditReturned =>
       /\ ~IsException(call.result)
       /\ call.failed => (call.result.comments = <<>> \/ ~call.result.found)
  /\ NewsReturned =>
       /\ ~IsException(call.result)
       /\ call.failed => (call.result.snippets = <<>> \/ ~call.result.found)
  /\ GitHubReturned =>
       /\ ~IsException(call.result)
       /\ call.profileFailed => ~call.result.found
       /\ call.eventsFailed => (call.result.events.items = <<>> \/ ~call.result.found)

\* the stages of a primary-source fetch logged so far
StageNames(stages) == [k \in 1..Len(stages) |-> stages[k].stage]
IsPrefix(s, t) == Len(s) <= Len(t) /\ s = SubSeq(t, 1, Len(s))
\* the stages were tried in the given order, each after every earlier one had been
\* tried and had produced no items
FollowsOrder(stages, order) ==
  /\ IsPrefix(StageNames(stages), order)
  /\ \A k \in 1..(Len(stages) - 1) : ~stages[k].items
FetchInProgress == "stages" \in DOMAIN frame
DemoRequested == StageNames(frame.stages) = <<"demo">>

\* C5 as stated: in both handlers the stages are consulted in the order mirrors,
\* search API, static cache, not-found (the demo data of /api/analyze standing for
\* its not-found stage), a later one only after every earlier one produced no items.
C5_SameOrderInBothHandlers ==
  FetchInProgress =>
    IF frame.handler = "analyzeAll"
    THEN FollowsOrder(frame.stages, <<"mirrors", "searchApi", "cache", "notFound">>)
    ELSE \/ DemoRequested
         \/ FollowsOrder(frame.stages, <<"mirrors", "searchApi", "cache", "demo">>)

\* C5 amended: /api/analyze-all uses the stages in the order mirrors, search API,
\* static cache, not-found; /api/analyze uses the static cache first, then the
\* mirrors, then the search API, then demo data; in both a later stage is used only
\* after every earlier stage has been attempted and has produced no items.
C5_OrderPerHandler ==
  FetchInProgress =>
    IF frame.handler = "analyzeAll"
    THEN FollowsOrder(frame.stages, <<"mirrors", "searchApi", "cache", "notFound">>)
    ELSE \/ DemoRequested
         \/ FollowsOrder(frame.stages, <<"cache", "mirrors", "searchApi", "demo">>)

\* C5 witness: /api/analyze-all reached the static cache, and found tweets in it,
\* after the mirrors and the search API had given none
C5_CacheAfterMirrorsAndSearch ==
  /\ frame.handler = "analyzeAll" /\ FetchInProgress
  /\ StageNames(frame.stages) = <<"mirrors", "searchApi", "cache">>
  /\ frame.stages[3].items

\* C6: within one fetchNitterTweets the mirrors are requested in list order, each at
\* most once; when mirror N+1 is the first to answer with a feed that has an item,
\* the fetch returns that feed's items and mirror N+1's name and contacts no later
\* mirror.
C6_MirrorsInListOrder ==
  call.fn = "fetchNitterTweets" =>
    /\ call.attempts = [k \in 1..Len(call.attempts) |-> k]
    /\ Len(call.attempts) <= Len(NITTER_INSTANCES)
    /\ Len(call.attempts) = Len(call.good) + (IF call.returned THEN 0 ELSE 1)
    /\ \A k \in 1..Len(call.good) :
         call.good[k] =>
           /\ k = Len(call.good) /\ call.returned
           /\ call.result.tweets # <<>>
           /\ call.result.instance = NITTER_INSTANCES[k]

\* C6 witness: two mirrors failed and the third answered with a feed that has items
C6_ThirdMirrorAnswers ==
  /\ NitterReturned
  /\ call.good = <<FALSE, FALSE, TRUE>>
  /\ call.result.instance = NITTER_INSTANCES[3]

AnalyzeAllAnswered ==
  pc = "responded" /\ frame.handler = "analyzeAll" /\ "cleanUsername" \in DOMAIN frame

MultiSourceShape ==
  /\ response.status = 200
  /\ DOMAIN response.body =
       {"user", "finalScore", "verdict", "breakdown", "sourcesFound", "weights"}

\* C7: whichever fetch or analyze steps of /api/analyze-all fail, all four sources
\* are still recorded and aggregated and the request is answered with the
\* multi-source shape, not with an error response.
C7_SourceFailureNeverAborts ==
  AnalyzeAllAnswered => (MultiSourceShape /\ Len(sources) = Len(SourceNames))

AllNotFound ==
  /\ Len(sources) = Len(SourceNames)
  /\ \A i \in 1..Len(sources) : ~sources[i][2].found

\* C8: when all four sources are found: false the request is answered with status
\* 200, finalScore 50, verdict NICE, sourcesFound 0 and an empty breakdown; an error
\* response is only ever sent while a source with data was being analyzed.
C8_AllNotFoundIsNeutral ==
  AnalyzeAllAnswered =>
    /\ AllNotFound =>
         /\ MultiSourceShape
         /\ response.body.finalScore = 50
         /\ response.body.verdict = "NICE"
         /\ response.body.sourcesFound = 0
         /\ DOMAIN response.body.breakdown = {}
    /\ response.status # 200 =>
         \/ sources = <<>> /\ frame.stages # <<>>
         \/ call.fn \in {"fetchRedditData", "fetchNewsData", "fetchGitHubData"}
              /\ call.result.found

\* C8 witness: a request whose four sources were all not found has been answered
C8_AnsweredWithNothingFound ==
  AnalyzeAllAnswered /\ AllNotFound /\ response.status = 200

\* C9: when fetchGitHubData returns found: false the github entry recorded by the
\* orchestrator is found, with score 50 and verdict NICE, and is part of the
\* aggregate with its weight.
C9_MissingProfileStillCounted ==
  (AnalyzeAllAnswered /\ response.status = 200 /\ ~call.result.found) =>
    /\ sources[4][1] = "github"
    /\ sources[4][2].found
    /\ sources[4][2].score = 50 /\ sources[4][2].verdict = "NICE"
    /\ "github" \in DOMAIN response.body.breakdown

\* C10: the profile of the response is the microblog profile when that source
\* produced items, else the profile built from the GitHub user when that source was
\* found, else a placeholder built from the identifier alone.
C10_PrimaryProfilePreference ==
  (AnalyzeAllAnswered /\ response.status = 200) =>
    IF sources[1][2].found THEN response.body.user = frame.twitterUser
    ELSE IF sources[4][2].found
    THEN response.body.user = GitHubUser(frame.cleanUsername, call.result.user)
    ELSE response.body.user \in {PlaceholderUser(frame.cleanUsername),
                                 GenericUser(frame.cleanUsername)}

(***************************************************************************)
(* C11: requests without an identifier.                                    *)
(***************************************************************************)
\* the request body carries no identifier: none at all, or the empty string
IdentifierMissing(body) == "username" \notin DOMAIN body \/ body.username = ""

\* no fetcher was called, no stage of the microblog chain was run, nothing was
\* analyzed or recorded and nothing was aggregated for the request in progress
NoPipelineStep ==
  /\ call = NoCall
  /\ "stages" \notin DOMAIN frame
  /\ sources = <<>>
  /\ result = NoResult

\* C11: a request to /api/analyze or /api/analyze-all without an identifier is
\* answered with status 400 and no fetcher, analyzer or aggregator step runs for
\* it; a request for which any such step has run carries an identifier.
C11_MissingIdentifierIsClientError ==
  frame # NoFrame =>
    /\ IdentifierMissing(frame.body) =>
         /\ pc = "responded"
         /\ response = BadRequest
         /\ NoPipelineStep
    /\ ~NoPipelineStep => ~IdentifierMissing(frame.body)
    /\ response.status = 400 => IdentifierMissing(frame.body)

\* C11 witness: /api/analyze-all was sent a body without a username and answered 400
C11_RejectedWithoutUsername ==
  /\ frame # NoFrame /\ frame.handler = "analyzeAll"
  /\ "username" \notin DOMAIN frame.body
  /\ response.status = 400
  /\ NoPipelineStep

(***************************************************************************)
(* C12: the Reddit token cache.                                            *)
(***************************************************************************)
\* getRedditToken is entered by this step
TokenCallBegins == call.fn # "fetchRedditData" /\ call'.fn = "fetchRedditData"
\* this step sends the request to the token endpoint
TokenRequestIssued == pc # "redditToken" /\ pc' = "redditToken"
\* this step handles a token response that grants a token
TokenAcquired == pc = "redditToken" /\ pc' # "redditToken" /\ call'.token # Null

TokenCacheStep ==
  /\ TokenRequestIssued => (redditAccessToken = Null \/ now >= redditTokenExpiry)
  /\ (TokenCallBegins /\ redditAccessToken # Null /\ now < redditTokenExpiry) =>
       /\ ~TokenRequestIssued
       /\ call'.token = redditAccessToken
       /\ UNCHANGED <<redditAccessToken, redditTokenExpiry>>
  /\ TokenAcquired =>
       /\ redditAccessToken' = call'.data.access_token
       /\ redditTokenExpiry' = now + call'.data.expires_in * 1000 - 60000
  /\ (pc = "redditToken" /\ ~TokenAcquired) => UNCHANGED <<redditAccessToken, redditTokenExpiry>>

\* C12: getRedditToken sends a token request only when no token is cached or the
\* time is at or past the cached expiry; with a token cached and now < expiry it
\* returns the cached token without a request; after a token was granted the cached
\* expiry is the time of the grant + expires_in * 1000 - 60000.
C12_TokenReusedUntilExpiry == [][TokenCacheStep]_vars

\* C12 witness: a call found the token of an earlier request still valid and went
\* on with it, no token request made
C12_CachedTokenReused ==
  /\ call.fn = "fetchRedditData" /\ pc = "redditComments"
  /\ call.data = Null /\ call.token # Null
  /\ call.token = redditAccessToken /\ now < redditTokenExpiry

\* a call found the cached token expired and asked for a new one
C12_ExpiredTokenRefetched ==
  /\ pc = "redditToken" /\ redditAccessToken # Null /\ now >= redditTokenExpiry

(***************************************************************************)
(* C13: the token cache under concurrent calls.                            *)
(***************************************************************************)
\* the call handled a grant and wrote the cache with it
WroteCache(c) == c.at = "returned" /\ c.data # Null /\ "access_token" \in DOMAIN c.data

\* the endpoint has sent this grant
Issued(data) == \E i \in 1..Len(fnInput) : fnInput[i] = data

\* C13: under every interleaving of concurrent getRedditToken calls the cached
\* token and the cached expiry come from one and the same token response, written
\* together by the call that handled it, and every call returns null or a token
\* the token endpoint issued.
C13_TokenCacheNeverCorrupted ==
  /\ \/ redditAccessToken = Null /\ redditTokenExpiry = 0
     \/ \E p \in TokenCalls :
          /\ WroteCache(call[p]) /\ Issued(call[p].data)
          /\ redditAccessToken = call[p].data.access_token
          /\ redditTokenExpiry =
               call[p].writtenAt + call[p].data.expires_in * 1000 - 60000
  /\ \A p \in TokenCalls :
       call[p].at = "returned" =>
         \/ call[p].value = Null
         \/ \E i \in 1..Len(fnInput) : fnInput[i].access_token = call[p].value

\* C13 witness: two overlapping calls each fetched a token; one has written the
\* cache with its grant while the other still holds a different grant to write
C13_RedundantRefetch ==
  \E p, q \in TokenCalls :
    /\ WroteCache(call[p])
    /\ call[q].at = "json" /\ TokenGranted(call[q].response)
    /\ call[q].response.data.access_token # call[p].data.access_token
    /\ call[q].response.data.expires_in # call[p].data.expires_in

(***************************************************************************)
(* C14: the counters and the score of analyzeRedditComments.               *)
(***************************************************************************)
\* the (comment, keyword) pairs in which the keyword occurs in the comment's text
KeywordHits(text, keywords) == {k \in 1..Len(keywords) : includes(text, keywords[k])}
KeywordMatches(comments, keywords) ==
  Cardinality(UNION {{<<i, k>> : k \in Strict1(LAMBDA text : KeywordHits(text, keywords),
                                                toLowerCase(comments[i].text))} :
                       i \in 1..Len(comments)})

ExpectedNegative(comments) ==
  KeywordMatches(comments, NAUGHTY_KEYWORDS)
    + 2 * Cardinality({i \in 1..Len(comments) : comments[i].score < 0})
ExpectedPositive(comments) ==
  KeywordMatches(comments, NICE_KEYWORDS)
    + Cardinality({i \in 1..Len(comments) : comments[i].score > 10})

Clamp(lo, hi, x) == IF x < lo THEN lo ELSE IF x > hi THEN hi ELSE x

RedditCallReturned == fnName = "analyzeRedditComments" /\ fnOutput # NoResult
AllCommentsHaveText == \A i \in 1..Len(fnInput) : "text" \in DOMAIN fnInput[i]

CountersAndScore(out, negative, positive) ==
  /\ out.naughtyCount = negative
  /\ out.niceCount = positive
  /\ out.score = Clamp(0, 100, 50 + (positive - negative) * 3)

LoveAndStupid ==
  << [text |-> "I love this", score |-> 15, subreddit |-> "pics"],
     [text |-> "you are stupid", score |-> -3, subreddit |-> "pics"] >>

\* C14: for every list of comments analyzeRedditComments returns naughtyCount =
\* keyword matches of the negative list + 2 per comment with score < 0, niceCount
\* = keyword matches of the positive list + 1 per comment with score > 10 and
\* score = clamp(0, 100, 50 + (niceCount - naughtyCount) * 3); the two comments
\* ("I love this", 15), ("you are stupid", -3) give 2, 3, 47 and NAUGHTY.
C14_RedditCountersAndScore ==
  (RedditCallReturned /\ AllCommentsHaveText) =>
    /\ CountersAndScore(fnOutput, ExpectedNegative(fnInput), ExpectedPositive(fnInput))
    /\ fnInput = LoveAndStupid =>
         /\ fnOutput.niceCount = 2 /\ fnOutput.naughtyCount = 3
         /\ fnOutput.score = 47 /\ fnOutput.verdict = "NAUGHTY"

\* C14 witness: the two comments of the example have been analyzed
C14_ExampleAnalyzed ==
  RedditCallReturned /\ fnInput = LoveAndStupid /\ fnOutput.score = 47

(***************************************************************************)
(* C15: analyzeTweets is a pure function.                                  *)
(***************************************************************************)
\* C15: two calls of analyzeTweets on the same list return the same score, verdict,
\* counts, percentages and examples whatever other analyzer calls ran between
\* them, and the list is the same at both calls.
C15_AnalyzeTweetsIsPure ==
  \A i, j \in 1..Len(fnOutput) :
    /\ fnOutput[i].input = fnInput
    /\ fnOutput[i].output = fnOutput[j].output

\* C15 witness: a list with a naughty and a nice tweet was analyzed, another
\* analyzeTweets call ran on another list, and the first list was analyzed again
C15_AnalyzedTwice ==
  /\ fnName = "analyzeTweets" /\ Len(fnOutput) = 2
  /\ Len(sources) = 1 /\ sources[1][1] = "analyzeTweets"
  /\ ~IsException(fnOutput[2].output)
  /\ fnOutput[2].output.naughtyCount > 0 /\ fnOutput[2].output.niceCount > 0
  /\ fnOutput[2].output.naughtyExamples # <<>>

(***************************************************************************)
(* C16: fetchGitHubData on a missing profile and on failed events.         *)
(***************************************************************************)
\* the answer has a non-success status
NonSuccess(o) == o.kind = "response" /\ ~o.ok
\* the profile request answered with a success status and a profile
ProfileFetched(o) == o.kind = "response" /\ o.ok /\ o.valid /\ o.json # Null
\* the events request failed: a non-success status, a network failure or a body
\* that does not parse
EventsRequestFailed(o) == o # Null /\ (o.kind # "response" \/ ~o.ok \/ ~o.valid)

\* C16: fetchGitHubData returns found: false with user null when the profile
\* response has a non-success status, and found: true with the profile and an
\* empty event list when the profile request succeeded and the events request
\* failed in any way.
C16_EventsFailureKeepsProfile ==
  GitHubReturned =>
    /\ NonSuccess(call.userResponse) =>
         /\ ~call.result.found /\ call.result.user = Null
    /\ (ProfileFetched(call.userResponse) /\ EventsRequestFailed(call.eventsResponse)) =>
         /\ call.result.found
         /\ call.result.user = call.userResponse.json
         /\ call.result.events = NoEvents

\* the part of C16 that the code keeps: a missing profile is not found, and a
\* non-success status of the events request leaves the profile with no events
C16_StatusFailuresDegrade ==
  GitHubReturned =>
    /\ NonSuccess(call.userResponse) =>
         /\ ~call.result.found /\ call.result.user = Null
    /\ (ProfileFetched(call.userResponse) /\ call.eventsResponse # Null
          /\ NonSuccess(call.eventsResponse)) =>
         /\ call.result.found
         /\ call.result.user = call.userResponse.json
         /\ call.result.events = NoEvents

(***************************************************************************)
(* C17: a non-success status is a source that is not available.            *)
(***************************************************************************)
\* the mirror request was answered with an error status
MirrorErrorStatus(last) ==
  last # Null /\ last.outcome.kind = "response" /\ last.outcome.statusCode >= 400

\* after the answer of mirror last.instance the loop went on to the next mirror,
\* or returned without tweets when it was the last one
MovedToNextMirror(c) ==
  IF c.last.instance < Len(NITTER_INSTANCES)
  THEN ~c.returned /\ c.i = c.last.instance + 1 /\ c.hops = 0
  ELSE c.returned /\ c.result.tweets = <<>>

\* C17: on a non-success status fetchRedditData and the profile request of
\* fetchGitHubData return found: false, fetchNitterTweets goes on to the next
\* mirror, and fetchNewsData returns found: false with no snippets whatever the
\* body of the response holds.
C17_NonSuccessIsUnavailable ==
  /\ (RedditReturned /\ NonSuccess(call.response)) =>
       /\ ~call.result.found /\ call.result.comments = <<>>
  /\ (GitHubReturned /\ NonSuccess(call.userResponse)) => ~call.result.found
  /\ (call.fn = "fetchNitterTweets" /\ MirrorErrorStatus(call.last)) =>
       MovedToNextMirror(call)
  /\ (NewsReturned /\ NonSuccess(call.response)) =>
       /\ ~call.result.found /\ call.result.snippets = <<>>

\* the part of C17 that the code keeps: the fetchers that test the status
C17_TestedStatusIsUnavailable ==
  /\ (RedditReturned /\ NonSuccess(call.response)) =>
       /\ ~call.result.found /\ call.result.comments = <<>>
  /\ (GitHubReturned /\ NonSuccess(call.userResponse)) => ~call.result.found
  /\ (call.fn = "fetchNitterTweets" /\ MirrorErrorStatus(call.last)) =>
       MovedToNextMirror(call)

(***************************************************************************)
(* C18: redirects of fetchUrl.                                             *)
(***************************************************************************)
\* the answer is one that the request is to be rejected on: an error, a timeout,
\* a status other than 200 that is no redirect, or a redirect met after a redirect
\* of this mirror request was followed already
ToBeRejected(last) ==
  \/ last.outcome.kind # "response"
  \/ last.outcome.statusCode \notin {200, 301, 302}
  \/ last.outcome.statusCode \in {301, 302} /\ last.hops >= 1

\* C18: fetchUrl follows at most one redirect per mirror request: a redirect met
\* after one was followed is not followed, and on it, on any other status than 200
\* and on a timeout the request is rejected and fetchNitterTweets goes on to the
\* next mirror.
C18_AtMostOneRedirectHop ==
  call.fn = "fetchNitterTweets" =>
    /\ call.hops <= 1
    /\ (call.last # Null /\ ToBeRejected(call.last)) => MovedToNextMirror(call)

\* the part of C18 that the code keeps: an error, a timeout and a status that is
\* neither 200 nor a redirect send fetchNitterTweets to the next mirror
C18_FailuresMoveOn ==
  (call.fn = "fetchNitterTweets" /\ call.last # Null
     /\ (call.last.outcome.kind # "response"
           \/ call.last.outcome.statusCode \notin {200, 301, 302})) =>
    MovedToNextMirror(call)

(***************************************************************************)
(* C19: the order of the sources.                                          *)
(***************************************************************************)
\* the entries of the mapping inserted in the order p
Reordered(srcs, p) == [i \in 1..Len(srcs) |-> srcs[p[i]]]

\* the same finalScore, verdict, sourcesFound and breakdown
SameAggregate(a, b) ==
  [k \in {"finalScore", "verdict", "sourcesFound", "breakdown"} |-> a[k]] =
  [k \in {"finalScore", "verdict", "sourcesFound", "breakdown"} |-> b[k]]

\* C19: with the entries of the sources fixed, every order of inserting them into
\* the mapping gives the same finalScore, verdict, sourcesFound and breakdown.
C19_SourceOrderImmaterial ==
  result # NoResult =>
    \A p \in Permutations(1..Len(sources)) :
      SameAggregate(calculateWeightedScore(Reordered(sources, p)), result)


(***************************************************************************)
(* C20: the normalization of the identifier.                               *)
(***************************************************************************)
\* the identifier without surrounding whitespace and without a leading '@'
StripLeadingAt(username) ==
  IF Len(trim(username)) > 0 /\ SubSeq(trim(username), 1, 1) = "@"
  THEN trim(SubSeq(trim(username), 2, Len(trim(username))))
  ELSE trim(username)

Fetchers == {"fetchNitterTweets", "fetchRedditData", "fetchNewsData", "fetchGitHubData"}

\* C20: the handlers normalize the identifier by stripping a leading '@' and the
\* surrounding whitespace and nothing else, an '@' elsewhere being kept, and every
\* fetcher of the request is called with that normalized string.
C20_OnlyLeadingAtStripped ==
  "cleanUsername" \in DOMAIN frame =>
    /\ frame.cleanUsername = StripLeadingAt(frame.body.username)
    /\ call.fn \in Fetchers => call.username = frame.cleanUsername

\* the part of C20 that the code keeps: one and the same string is the argument of
\* every fetcher of a request, and a leading '@' of an identifier with no other '@'
\* and the surrounding whitespace are stripped
C20_SameKeyForAllFetchers ==
  "cleanUsername" \in DOMAIN frame =>
    /\ call.fn \in Fetchers => call.username = frame.cleanUsername
    /\ ~includes(StripLeadingAt(frame.body.username), "@") =>
         frame.cleanUsername = StripLeadingAt(frame.body.username)


\* C21: calculateWeightedScore returns a finalScore within 0..100 for every
\* mapping, entries with a score outside 0..100 included, and the verdict NICE
\* exactly when finalScore >= 50.
C21_FinalScoreClamped ==
  result # NoResult =>
    /\ result.finalScore \in 0..100
    /\ result.verdict = "NICE" <=> result.finalScore >= 50


\* C22: the breakdown of calculateWeightedScore holds exactly the included
\* sources; each entry echoes the fields of the source's result and carries
\* weight = round(weight * 100) followed by '%', which no field of the result
\* overrides; sourcesFound is the number of breakdown entries.
C22_BreakdownOfIncluded ==
  result # NoResult =>
    /\ DOMAIN result.breakdown = {sources[i][1] : i \in IncludedIdx(sources)}
    /\ result.sourcesFound = Cardinality(DOMAIN result.breakdown)
    /\ \A i \in IncludedIdx(sources) :
         LET entry == result.breakdown[sources[i][1]]
         IN /\ \A k \in DOMAIN sources[i][2] \ {"weight"} : entry[k] = sources[i][2][k]
            /\ entry.weight = ToString(Hundredths(sources[i][1])) \o "%"


(***************************************************************************)
(* C23: the score and the example lists of analyzeTweets.                  *)
(***************************************************************************)
TweetCallReturned == fnName = "analyzeTweets" /\ fnOutput # NoResult
AllTweetsHaveText == \A i \in 1..Len(fnInput) : "text" \in DOMAIN fnInput[i]

\* <<i, positive, negative>> for every item i: the keywords of the positive and
\* of the negative list that occur in its text
ItemCounts(items) ==
  {Strict1(LAMBDA text : <<i, Cardinality(KeywordHits(text, NICE_KEYWORDS)),
                           Cardinality(KeywordHits(text, NAUGHTY_KEYWORDS))>>,
           toLowerCase(items[i].text)) : i \in 1..Len(items)}
MorePositive(items) == {c[1] : c \in {x \in ItemCounts(items) : x[2] > x[3]}}
MoreNegative(items) == {c[1] : c \in {x \in ItemCounts(items) : x[3] > x[2]}}

\* the texts of the first up-to-3 items, in input order, whose index is in S
FirstThreeTexts(items, S) ==
  LET picked == SelectSeq([i \in 1..Len(items) |-> i], LAMBDA i : i \in S)
  IN [k \in 1..(IF Len(picked) < 3 THEN Len(picked) ELSE 3) |-> items[picked[k]].text]
TextsOf(examples) == [k \in 1..Len(examples) |-> examples[k].text]
ExampleTexts(examples) == {examples[k].text : k \in 1..Len(examples)}

\* C23: for every list of tweets analyzeTweets returns score = clamp(0, 100, 50 +
\* (positive - negative) * 5) over all (tweet, keyword) matches; niceExamples are
\* the first up-to-3 tweets with more positive than negative matches of their own
\* and naughtyExamples the first up-to-3 with more negative than positive, so a
\* tweet with equal counts is in neither list and no tweet is in both.
C23_ScoreAndExamples ==
  (TweetCallReturned /\ AllTweetsHaveText) =>
    LET counts   == ItemCounts(fnInput)
        positive == [i \in 1..Len(fnInput) |-> (CHOOSE c \in counts : c[1] = i)[2]]
        negative == [i \in 1..Len(fnInput) |-> (CHOOSE c \in counts : c[1] = i)[3]]
        nicer    == {c[1] : c \in {x \in counts : x[2] > x[3]}}
        worse    == {c[1] : c \in {x \in counts : x[3] > x[2]}}
        even     == {c[1] : c \in {x \in counts : x[2] = x[3]}}
    IN /\ fnOutput.score =
            Clamp(0, 100, 50 + (SumOver(positive, 1..Len(fnInput))
                                 - SumOver(negative, 1..Len(fnInput))) * 5)
       /\ Len(fnOutput.niceExamples) <= 3 /\ Len(fnOutput.naughtyExamples) <= 3
       /\ TextsOf(fnOutput.niceExamples) = FirstThreeTexts(fnInput, nicer)
       /\ TextsOf(fnOutput.naughtyExamples) = FirstThreeTexts(fnInput, worse)
       /\ \A i \in even : fnInput[i].text \notin ExampleTexts(fnOutput.niceExamples)
                                                   \cup ExampleTexts(fnOutput.naughtyExamples)
       /\ ExampleTexts(fnOutput.niceExamples) \cap ExampleTexts(fnOutput.naughtyExamples) = {}

\* C23 witness: a list with four nice tweets, a naughty one between them, has been
\* analyzed: the fourth nice tweet is left out of the three examples
C23_FourthLeftOut ==
  /\ TweetCallReturned /\ AllTweetsHaveText
  /\ Cardinality(MorePositive(fnInput)) = 4 /\ Cardinality(MoreNegative(fnInput)) = 1
  /\ Len(fnOutput.niceExamples) = 3 /\ Len(fnOutput.naughtyExamples) = 1


(***************************************************************************)
(* C24: the score of analyzeGitHubData for a profile.                      *)
(***************************************************************************)
GitHubProfileAnalyzed ==
  /\ fnName = "analyzeGitHubData" /\ fnOutput # NoResult /\ ~IsException(fnOutput)
  /\ fnInput.user # Null

EventsOfType(data, types) ==
  Cardinality({i \in 1..Len(data.events.items) : data.events.items[i].type \in types})

\* min(2 * repos, 20) + min(followers, 15) + 5 if bio + 5 if blog + 2 per push
\* event + 3 per pull-request event + 1 per issue event
ActivitySignal(data) ==
    (IF 2 * data.user.public_repos < 20 THEN 2 * data.user.public_repos ELSE 20)
  + (IF data.user.followers < 15 THEN data.user.followers ELSE 15)
  + (IF data.user.bio # "" THEN 5 ELSE 0)
  + (IF data.user.blog # "" THEN 5 ELSE 0)
  + 2 * EventsOfType(data, {"PushEvent"})
  + 3 * EventsOfType(data, {"PullRequestEvent"})
  + EventsOfType(data, {"IssuesEvent"})

\* C24: for a profile with non-negative counts analyzeGitHubData returns score =
\* clamp(0, 100, 50 + signal) with signal = min(2 * repos, 20) + min(followers, 15)
\* + 5 if bio + 5 if blog + 2 * push events + 3 * pull-request events + issue
\* events, which is not negative; the score is within 50..100 and the verdict is
\* NICE; events of other types add nothing.
C24_GitHubSignalAndScore ==
  GitHubProfileAnalyzed =>
    /\ ActivitySignal(fnInput) >= 0
    /\ fnOutput.score = Clamp(0, 100, 50 + ActivitySignal(fnInput))
    /\ fnOutput.score \in 50..100
    /\ fnOutput.verdict = "NICE"

\* C24 witness: a profile with repositories, followers and a bio whose events are
\* a pull request and one of another type has been analyzed
C24_OtherTypeIgnored ==
  /\ GitHubProfileAnalyzed
  /\ fnInput.user.public_repos = 5 /\ fnInput.user.followers = 16
  /\ fnInput.user.bio # "" /\ fnInput.user.blog = ""
  /\ EventsOfType(fnInput, {"PullRequestEvent"}) = 1
  /\ EventsOfType(fnInput, {"WatchEvent"}) = 1
  /\ fnOutput.score = 83


(***************************************************************************)
(* C29: the percentages of analyzeTweets.                                  *)
(***************************************************************************)
\* C29: whenever analyzeTweets counted at least one keyword match,
\* nicePercentage + naughtyPercentage = 100 and each is within 0..100; with no
\* match both are 0.
C29_PercentagesSumToHundred ==
  (TweetCallReturned /\ ~IsException(fnOutput)) =>
    /\ fnOutput.nicePercentage \in 0..100 /\ fnOutput.naughtyPercentage \in 0..100
    /\ IF fnOutput.niceCount + fnOutput.naughtyCount > 0
       THEN fnOutput.nicePercentage + fnOutput.naughtyPercentage = 100
       ELSE fnOutput.nicePercentage = 0 /\ fnOutput.naughtyPercentage = 0


(***************************************************************************)
(* C25: a failed token acquisition.                                        *)
(***************************************************************************)
\* getRedditToken has returned null to fetchRedditData in this step: the
\* credentials are missing, or the token request failed, could not be parsed or
\* carried no access_token
TokenCallFailed ==
  /\ pc # "redditComments" /\ pc' = "redditComments"
  /\ call'.token = Null

FailedAcquisitionStep ==
  /\ TokenCallFailed =>
       /\ UNCHANGED <<redditAccessToken, redditTokenExpiry>>
       /\ call'.fn = "fetchRedditData"
       /\ "Authorization" \notin call'.headers
  /\ redditAccessToken # Null => redditAccessToken' # Null
  /\ redditTokenExpiry # 0 => redditTokenExpiry' # 0

\* C25: a failed token acquisition (credentials missing, network or parse error,
\* answer without access_token) leaves the cached token and expiry as they were
\* and getRedditToken returns null; no step clears the cache, a stale token being
\* passed over by the expiry comparison alone; fetchRedditData goes on to the
\* comment request without an Authorization header.
C25_FailedAcquisitionKeepsCache == [][FailedAcquisitionStep]_vars

\* C25 witness: with credentials configured and a stale token in the cache the
\* token request failed; the comment request is on its way without a token and the
\* stale token is still cached
C25_StaleTokenKept ==
  /\ pc = "redditComments" /\ call.fn = "fetchRedditData"
  /\ env.redditCredentials
  /\ call.token = Null /\ "Authorization" \notin call.headers
  /\ redditAccessToken # Null /\ now >= redditTokenExpiry


(***************************************************************************)
(* C26: the cached client of initTwitterClient.                            *)
(***************************************************************************)
Began(p)      == call[p] = NotCalled /\ call'[p] # NotCalled
LoginEnded(p) == call[p].at = "login" /\ call'[p].at = "returned"

\* a failed login returns null and leaves the cache; a login that succeeds returns
\* the client it caches; a call that finds no client cached calls appLogin(); the
\* cached client is never reset to null
LoginAndCacheStep ==
  /\ \A p \in ClientCalls :
       /\ LoginEnded(p) =>
            IF call'[p].value = Null THEN UNCHANGED twitterClient
            ELSE twitterClient' = call'[p].value /\ twitterClient' = fnInput'[Len(fnInput')]
       /\ (Began(p) /\ twitterClient = Null) => call'[p].at = "login"
  /\ twitterClient # Null => twitterClient' # Null

\* the client of the first login that succeeded
FirstClient == fnInput[1]

\* C26 as stated: once one login has succeeded every later call returns that same
\* client without another login; a failed login returns null, caches nothing and
\* is attempted again on the next call; the cached client, once non-null, is never
\* reset to null, the start-up call overlapping a request's call or not.
C26_SameClientEverAfter ==
  [][/\ LoginAndCacheStep
     /\ \A p \in ClientCalls :
          (Began(p) /\ fnInput # <<>>) =>
            /\ call'[p] = ClientReturned(FirstClient, twitterClient, FALSE)
            /\ UNCHANGED twitterClient]_vars

\* C26 amended: once one login has succeeded every later call returns, without
\* another login, the client cached when it is made, which is that of the last
\* login that succeeded: a call that began before the first success logs in too
\* and caches its own client in place of the one before; a failed login returns
\* null, caches nothing and is attempted again on the next call; the cached
\* client, once non-null, is never reset to null.
C26_CachedClientReturned ==
  [][/\ LoginAndCacheStep
     /\ \A p \in ClientCalls :
          (Began(p) /\ fnInput # <<>>) =>
            /\ call'[p] = ClientReturned(twitterClient, twitterClient, FALSE)
            /\ twitterClient = fnInput[Len(fnInput)]
            /\ UNCHANGED twitterClient]_vars

\* C26 witness: the start-up call and a request's call overlapped and both logged
\* in; a later call has returned the client of the second login, no login made
C26_SecondLoginReplaced ==
  \E p, q \in ClientCalls :
    /\ call[0].at = "returned" /\ call[0].login /\ call[0].value # Null
    /\ p # 0 /\ call[p].at = "returned" /\ call[p].login /\ call[p].value # Null
    /\ call[p].value # call[0].value
    /\ call[q].at = "returned" /\ ~call[q].login
    /\ call[q].value = twitterClient /\ call[q].value # FirstClient


(***************************************************************************)
(* C27: every request to /api/analyze-all is answered.                     *)
(***************************************************************************)
AllRequestPending == frame # NoFrame /\ frame.handler = "analyzeAll" /\ pc # "responded"
AllRequestAnswered ==
  /\ pc = "responded" /\ frame.handler = "analyzeAll"
  /\ response.status \in {200, 400, 500}

\* C27: every request to /api/analyze-all is answered in the end, with 400, 200 or
\* 500, when every exchange with a source completes, fails or times out; the
\* chain of mirrors ends after one pass over the list of mirrors at most, a mirror
\* that answers with redirects included.
C27_EveryRequestAnswered ==
  /\ AllRequestPending ~> AllRequestAnswered
  /\ (pc = "nitter") ~> (pc = "nitterReturned")


(***************************************************************************)
(* C28: the session map of the Twitter MCP server.                         *)
(***************************************************************************)
\* the session ids of the connections that have been opened and not yet closed
OpenSessions(conns) == {SessionIdOf(n) : n \in {m \in Connections : conns[m] = "open"}}

PostHandled == pc = "parsing" /\ pc' = "idle"

SessionMapStep ==
  /\ DOMAIN transports = OpenSessions(call)
  /\ DOMAIN transports' = OpenSessions(call')
  /\ PostHandled =>
       IF "sessionId" \notin DOMAIN frame.query
       THEN response'.status = 400 /\ fnOutput' = Null
       ELSE IF frame.query.sessionId \notin OpenSessions(call)
       THEN /\ response'.status = IF frame.query.sessionId = "" THEN 400 ELSE 404
            /\ fnOutput' = Null
       ELSE /\ fnOutput'.sessionId = frame.query.sessionId
            /\ \A n \in Connections :
                 fnOutput'.res = n <=> SessionIdOf(n) = frame.query.sessionId
            /\ response'.status \notin {400, 404}

\* C28: after any sequence of SSE connects, closes and POST /messages requests the
\* transports map holds exactly the sessions opened and not yet closed; a POST
\* without sessionId gets 400, a POST whose sessionId is not in the map (never
\* opened or closed already) gets 404 and is not dispatched, and a POST for an open
\* session is dispatched to the transport of that session and to no other.
C28_SessionMapAndDispatch == [][SessionMapStep]_vars

\* C28 witness: a POST for a session that was closed while its body was read got
\* 404, another session being open
C28_ClosedSessionNotFound ==
  /\ fnName = "TwitterServer.start" /\ pc = "idle" /\ frame # NoFrame
  /\ response.status = 404 /\ fnOutput = Null
  /\ \E n, m \in Connections :
       /\ frame.query.sessionId = SessionIdOf(n)
       /\ call[n] = "closed" /\ call[m] = "open"

====
